---- MODULE Spec2Model ----
(***************************************************************************)
(* Model of the inventory-sync repository: the resilience layer            *)
(* (utils/api_resilience.py), the catalog client (src/shopify_client.py)   *)
(* and the scheduled batch executor (src/scheduler.py).                    *)
(*                                                                         *)
(* The specifications of the module:                                       *)
(*   SpecBreaker  CircuitBreaker.call driven by concurrent callers         *)
(*   SpecBreakerLive  the same with func succeeding from some point on     *)
(*   SpecGateway  ResilientAPIClient.make_request beside the catalog       *)
(*                client's own ShopifyClient._make_request                 *)
(*   SpecLimiter  the handlers of AdaptiveRateLimiter alone                *)
(*   SpecSync     SyncScheduler.execute_sync_job / perform_batch_sync      *)
(*   SpecJobs     the lifecycle of scheduled jobs and their files          *)
(*   SpecMatch    SKUMatcher.match_skus over a frame and a catalog         *)
(*   SpecRun      execute_sync_job from the column mapping to the marking  *)
(*   SpecRecover  SyncScheduler.load_scheduled_jobs over a directory       *)
(* Each leaves the other parts' variables unchanged.                       *)
(***************************************************************************)
EXTENDS Integers, Sequences, FiniteSets, TLC

\* ---------------------------------------------------------------- bounds
\* Rows of matched data in one run.
MaxItems == 2
\* Executions of the job in one behaviour.
MaxRuns == 1
\* Number of threads calling CircuitBreaker.call concurrently.
NumCallers == 2
\* The clock (time.time(), in whole seconds) runs over 1..MaxTime.
MaxTime == 5
\* Calls of execute_sync_job (scheduled fires and run-now together, all job
\* ids) in one behaviour of the job lifecycle.
MaxExecs == 2

Callers == 1..NumCallers

\* self.last_failure_time = None
None == -1

\* Constructor arguments the breaker is built with (failure_threshold,
\* recovery_timeout), in clock ticks.
Thresholds == {2, 3}
RecoveryTimeouts == {1, 2}

VARIABLES
    cb,          \* the CircuitBreaker object: state, failure_count, last_failure_time,
                 \* failure_threshold, recovery_timeout
    now,         \* time.time()
    pc,          \* per caller of CircuitBreaker.call: "idle" or "in_func" (func running)
    entered_in,  \* per caller: the breaker state call() read at line 31 when it let the caller in
    consec,      \* history: completed calls that failed since the last success (or reset)
    ev,          \* history: the last step taken, [kind, caller, from]; from is the
                 \* breaker state before that step
    rl,          \* the AdaptiveRateLimiter object
    g,           \* ResilientAPIClient.make_request in progress: pc, attempt, retry_at,
                 \* waited (wait() ran for the coming request), result
    sc,          \* ShopifyClient._make_request in progress: pc, attempt, retry_at,
                 \* last_request_time, waited, result
    net,         \* history: the last HTTP request put on the network
    job,         \* job_data of the scheduled job: sync_fields, sync_options, run_count,
                 \* success_count, error_count, last_error
    phase,       \* execute_sync_job: "idle" (not running) or "sync" (in perform_batch_sync)
    matched_data,\* what match_skus returned in the current run
    sync_data,   \* the write set handed to perform_batch_sync
    idx,         \* perform_batch_sync: position in sync_data of the next item
    results,     \* perform_batch_sync: the outcome list
    result,      \* execute_sync_job: the execution record of the current / last run
    reqs,        \* history: <<row_index, request kind>> of every catalog request of the run
    attempted,   \* history: positions of sync_data whose update was attempted, in order
    own,         \* history: per attempted position, what its own update calls did:
                 \* [raised, call_failed]
    files,       \* per job id: the content of job_config_<id>.json, or Missing
    triggers,    \* per job id: the job_data dict the scheduler's registration holds
                 \* (args of add_job), or Missing when the id has no registration
    running,     \* per <<job id, "trigger" | "manual">>: the execute_sync_job call in
                 \* flight: [data, shared, stage, rec, hist_read, returns], or Missing
    history,     \* per job id: the content of job_history_<id>.json
    feeds,       \* column_mapping of the feed configuration in config_manager.configs
    feed_file,   \* column_mapping of the feed configuration in feed_configs.json
    finished,    \* history: per job id, executions completed since the id was added
    life,        \* history: per job id, "new", "added" once add_scheduled_sync has
                 \* returned True, "removed" once remove_scheduled_sync has
    overlapped,  \* history: per job id, two calls for the id were in flight together
    io_failed,   \* history: a write or delete of a storage file has failed
    df,          \* match_skus: the DataFrame argument, a sequence of rows [sku, qty]
    shopify_products, \* match_skus: the shopify_products argument
    matcher,     \* the SKUMatcher and its match_skus call: fuzzy_threshold, pc,
                 \* index (next row), shopify_sku_map, matched_data, fuzzy_rows
    run,         \* one execute_sync_job call from the feed's columns on: pc, the
                 \* feed's columns and the two mappings, column_mapping, df_columns,
                 \* pages, fetch_failed, catalog_reqs, matched, result, job
    boot         \* one load_scheduled_jobs call: listing, next, registered, pc

breakerVars == <<cb, now, pc, entered_in, consec, ev>>
gatewayVars == <<rl, g, sc, net>>
syncVars == <<job, phase, matched_data, sync_data, idx, results, result, reqs, attempted, own>>
jobsVars == <<files, triggers, running, history, feeds, feed_file, finished,
              life, overlapped, io_failed>>
matchVars == <<df, shopify_products, matcher>>
runVars == <<run>>
bootVars == <<boot>>
vars == <<cb, now, pc, entered_in, consec, ev, rl, g, sc, net,
          job, phase, matched_data, sync_data, idx, results, result, reqs, attempted, own,
          files, triggers, running, history, feeds, feed_file, finished,
          life, overlapped, io_failed, df, shopify_products, matcher, run, boot>>

\* -------------------------------------------------------- CircuitBreaker
CircuitBreaker(failure_threshold, recovery_timeout) ==
    [ failure_threshold |-> failure_threshold,
      recovery_timeout  |-> recovery_timeout,
      failure_count     |-> 0,
      last_failure_time |-> None,
      state             |-> "CLOSED" ]

\* Mutant: the elapsed time is compared with twice the recovery timeout plus
\* the threshold, which the clock never reaches after a failure.
should_attempt_reset_late(b, t) ==
    IF b.last_failure_time = None
    THEN TRUE
    ELSE t - b.last_failure_time >= 2 * b.recovery_timeout + b.failure_threshold + MaxTime

_should_attempt_reset(b, t) ==
    IF b.last_failure_time = None
    THEN TRUE
    ELSE t - b.last_failure_time >= b.recovery_timeout

\* Mutant: a success closes the breaker but keeps the failure count.
on_success_keeps_count(b) ==
    [b EXCEPT !.state = "CLOSED"]

_on_success(b) ==
    [b EXCEPT !.failure_count = 0, !.state = "CLOSED"]

\* Mutant: the threshold comparison is strict (one failure too many is needed).
on_failure_strict(b, t) ==
    LET n == b.failure_count + 1 IN
    [b EXCEPT !.failure_count = n,
              !.last_failure_time = t,
              !.state = IF n > b.failure_threshold THEN "OPEN" ELSE @]

_on_failure(b, t) ==
    LET n == b.failure_count + 1 IN
    [b EXCEPT !.failure_count = n,
              !.last_failure_time = t,
              !.state = IF n >= b.failure_threshold THEN "OPEN" ELSE @]

\* Mutant: a rejected call is recorded as a failure time, restarting the cooldown.
call_gate_extends_cooldown(b, t) ==
    IF b.state = "OPEN"
    THEN IF _should_attempt_reset(b, t)
         THEN [admit |-> TRUE, cb |-> [b EXCEPT !.state = "HALF_OPEN"]]
         ELSE [admit |-> FALSE, cb |-> [b EXCEPT !.last_failure_time = t]]
    ELSE [admit |-> TRUE, cb |-> b]

\* Lines 31-36 of call(): the admission test made before func is invoked.
\* admit = FALSE is the raise of "Circuit breaker is OPEN - API calls blocked".
call_gate(b, t) ==
    IF b.state = "OPEN"
    THEN IF _should_attempt_reset(b, t)
         THEN [admit |-> TRUE, cb |-> [b EXCEPT !.state = "HALF_OPEN"]]
         ELSE [admit |-> FALSE, cb |-> b]
    ELSE [admit |-> TRUE, cb |-> b]

\* ResilientAPIClient.reset(), the breaker half.
reset_breaker(b) ==
    [b EXCEPT !.failure_count = 0, !.state = "CLOSED", !.last_failure_time = None]

\* --------------------------------------------------- AdaptiveRateLimiter
\* Delays are held in units of 1e-7 s, in which every value the limiter can
\* reach from (0.5 s, 1.0 s) is a whole number (1.0 * 0.9^k, k <= 7).
UnitsPerSecond == 10 * 1000 * 1000

\* create_resilient_session(initial_delay = 0.5, max_delay = 1.0)
LimiterConfigs == { [initial_delay |-> 5 * 1000 * 1000, max_delay |-> 10 * 1000 * 1000] }

\* Retry-After header values of a 429 response (None: header absent).
RetryAfters == {None, 1}

AdaptiveRateLimiter(initial_delay, max_delay) ==
    [ current_delay     |-> initial_delay,
      initial_delay     |-> initial_delay,
      max_delay         |-> max_delay,
      last_request_time |-> 0,
      success_count     |-> 0 ]

Min(a, b) == IF a <= b THEN a ELSE b
Max(a, b) == IF a >= b THEN a ELSE b

\* wait() returns once current_delay has elapsed since last_request_time.
wait_elapsed(l, t) == (t - l.last_request_time) * UnitsPerSecond >= l.current_delay

wait(l, t) == [l EXCEPT !.last_request_time = t]

\* Mutant: the decay step is not floored at initial_delay.
on_success_no_floor(l) ==
    LET n == l.success_count + 1 IN
    IF n >= 5
    THEN [l EXCEPT !.current_delay = (l.current_delay * 9) \div 10,
                   !.success_count = 0]
    ELSE [l EXCEPT !.success_count = n]

on_success(l) ==
    LET n == l.success_count + 1 IN
    IF n >= 5
    THEN [l EXCEPT !.current_delay = Max(l.initial_delay, (l.current_delay * 9) \div 10),
                   !.success_count = 0]
    ELSE [l EXCEPT !.success_count = n]

on_rate_limit(l, retry_after) ==
    IF retry_after # None /\ retry_after # 0
    THEN [l EXCEPT !.success_count = 0,
                   !.current_delay = Min(l.max_delay, (retry_after + 1) * UnitsPerSecond)]
    ELSE [l EXCEPT !.success_count = 0,
                   !.current_delay = Min(l.max_delay, l.current_delay * 2)]

on_overload(l) ==
    [l EXCEPT !.success_count = 0,
              !.current_delay = Min(l.max_delay, l.current_delay * 3)]

\* ResilientAPIClient.reset(), the limiter half.
reset_limiter(l) ==
    [l EXCEPT !.current_delay = l.initial_delay, !.success_count = 0]

\* ------------------------------------------------ scheduled sync: the data
\* sync_fields is a dict toggle -> bool; a dict is a function on its keys.
Get(d, k) == IF k \in DOMAIN d THEN d[k] ELSE FALSE

EmptyDict == [k \in {} |-> TRUE]

\* The sync_fields a job is created with (add_scheduled_sync: sync_fields or {}).
PolicyInputs ==
    { EmptyDict,
      [k \in {"inventory_quantity"} |-> TRUE],
      [k \in {"inventory_quantity"} |-> FALSE],
      [k \in {"inventory_quantity", "product_title", "variant_price"} |-> FALSE],
      [k \in {"inventory_quantity", "product_title", "variant_price"} |-> k = "inventory_quantity"],
      [k \in {"inventory_quantity", "product_title"} |-> TRUE],
      [k \in {"product_title"} |-> TRUE],
      [k \in {"variant_price"} |-> TRUE],
      [k \in {"product_description"} |-> TRUE],
      [k \in {"inventory_quantity", "product_title", "variant_price"} |-> TRUE] }

\* The sync_options a job is created with.
BatchSizes == {1, 2, 5}
OptionInputs == { [batch_size |-> b, skip_zero_inventory |-> z] : b \in BatchSizes, z \in BOOLEAN }

MatchTypes == {"exact", "fuzzy", "no_match"}
Quantities == {0, 1}

\* A MatchResult as match_skus builds it (lines 54-81), cut to the keys the
\* executor reads; variant_id is None for no_match.
MatchResult(row, mt, qty) ==
    [ row_index    |-> row,
      variant_id   |-> IF mt = "no_match" THEN None ELSE row,
      match_type   |-> mt,
      new_quantity |-> qty ]

\* The results match_skus can return for one row: any match type; the quantity
\* varies for the exact ones (the executor reads no other row's quantity).
RowResults(row) ==
    { MatchResult(row, "exact", q) : q \in Quantities }
    \cup { MatchResult(row, mt, 1) : mt \in MatchTypes \ {"exact"} }

\* Every list match_skus can return for a feed of n rows: one result per row, in
\* row order.
MatchedLists ==
    UNION { { md \in [1..n -> UNION { RowResults(k) : k \in 1..n }] :
                \A k \in 1..n : md[k] \in RowResults(k) } :
            n \in 0..MaxItems }

\* Mutant: near matches are let into the write set too.
matched_only(m) == m.match_type # "no_match"

\* scheduler.py line 213: [m for m in matched_data if m['match_type'] == 'exact']
exact_only(m) == m.match_type = "exact"

\* What one ShopifyClient._make_request call of the executor ends in: a
\* response, an exception, or an exception whose text holds "temporarily unavailable".
Outcomes == {"ok", "error", "overload"}

\* update_data as perform_batch_sync builds it (lines 341-350): these keys are
\* always present (with None when the item carries no such key).
UpdateDataKeys == {"quantity", "title", "price", "compare_at_price", "vendor",
                   "product_type", "sku", "weight"}

\* update_product_fields lines 386-396 and 405-415: toggle and the update_data
\* key it reads.
ProductFields ==
    { <<"product_title", "title">>, <<"product_description", "body_html">>,
      <<"product_vendor", "vendor">>, <<"product_type", "product_type">>,
      <<"product_status", "status">> }

VariantFields ==
    { <<"variant_price", "price">>, <<"compare_at_price", "compare_at_price">>,
      <<"variant_weight", "weight">>, <<"variant_sku", "sku">>,
      <<"track_inventory", "inventory_management">> }

\* Mutant: the title is patched whenever the item has one, whatever the policy.
product_updates_unguarded(sync_fields) ==
    { f[2] : f \in { x \in ProductFields : x[2] \in UpdateDataKeys } }

product_updates(sync_fields) ==
    { f[2] : f \in { x \in ProductFields : Get(sync_fields, x[1]) /\ x[2] \in UpdateDataKeys } }

variant_updates(sync_fields) ==
    { f[2] : f \in { x \in VariantFields : Get(sync_fields, x[1]) /\ x[2] \in UpdateDataKeys } }

\* ShopifyClient.update_inventory: GET variants/{id}.json, GET locations.json,
\* POST inventory_levels/set.json; where it stops and what it raises.
InvOutcomes ==
    { [stage |-> "done", raised |-> "none"],
      [stage |-> "no_inventory_item", raised |-> "error"],
      [stage |-> "no_locations", raised |-> "error"] }
    \cup { [stage |-> st, raised |-> r] :
             st \in {"variant", "locations", "set"}, r \in {"error", "overload"} }

update_inventory(inv) ==
    [ reqs   |-> CASE inv.stage \in {"variant", "no_inventory_item"} -> {"GET_variant"}
                   [] inv.stage \in {"locations", "no_locations"} -> {"GET_variant", "GET_locations"}
                   [] OTHER -> {"GET_variant", "GET_locations", "POST_inventory_set"},
      raised |-> inv.raised ]

\* ShopifyClient.update_product_fields(product_id, variant_id, update_data,
\* sync_fields), given what each request it makes ends in.
update_product_fields(sync_fields, op, ov, inv) ==
    LET putp == product_updates(sync_fields) # {}
        putv == variant_updates(sync_fields) # {}
        doinv == Get(sync_fields, "inventory_quantity") /\ "quantity" \in UpdateDataKeys
        ui == update_inventory(inv)
    IN  IF putp /\ op # "ok"
        THEN [reqs |-> {"PUT_product"}, raised |-> op, call_failed |-> TRUE]
        ELSE IF putv /\ ov # "ok"
        THEN [reqs |-> (IF putp THEN {"PUT_product"} ELSE {}) \cup {"PUT_variant"},
              raised |-> ov, call_failed |-> TRUE]
        ELSE [reqs |-> (IF putp THEN {"PUT_product"} ELSE {})
                       \cup (IF putv THEN {"PUT_variant"} ELSE {})
                       \cup (IF doinv THEN ui.reqs ELSE {}),
              \* lines 424-430: an inventory failure is kept in results['inventory']
              raised |-> "none",
              call_failed |-> doinv /\ ui.raised # "none"]

\* any(field for field in sync_fields.values() if field)
any_enabled(sync_fields) == \E k \in DOMAIN sync_fields : sync_fields[k]

\* perform_batch_sync line 328: sync_fields or {'inventory_quantity': True}
effective_fields(sync_fields) ==
    IF DOMAIN sync_fields = {} THEN [k \in {"inventory_quantity"} |-> TRUE] ELSE sync_fields

\* Lines 353-380: the update of one item.
update_item(sync_fields, op, ov, inv) ==
    IF any_enabled(sync_fields)
    THEN update_product_fields(sync_fields, op, ov, inv)
    ELSE LET ui == update_inventory(inv) IN
         [reqs |-> ui.reqs, raised |-> ui.raised, call_failed |-> ui.raised # "none"]

\* Mutant: a zero quantity is synced like any other.
skip_zero_never(sync_options, item) == FALSE

\* Lines 336-338: the item is passed over (continue) when skip_zero_inventory
\* is set and its new quantity is 0.
skip_zero(sync_options, item) ==
    sync_options.skip_zero_inventory /\ item.new_quantity = 0

\* Mutant: an overload error is recorded and the loop goes on to the next item.
next_index_no_break(i, raised, batch_size) == i + 1

\* Where the loops of lines 330-333 go after item i: the next item, or after the
\* break of line 397 the first item of the next batch.
next_index(i, raised, batch_size) ==
    IF raised = "overload"
    THEN ((i - 1) \div batch_size + 1) * batch_size + 1
    ELSE i + 1

\* What makes execute_sync_job raise before the catalog is touched (lines
\* 159-204, 246), or "ok".
PreOutcomes == {"ok", "download_failed", "missing_columns", "config_invalid"}

\* job_data as add_scheduled_sync creates it (lines 76-91).
job_data(sync_fields, sync_options) ==
    [ sync_fields |-> sync_fields, sync_options |-> sync_options, run_count |-> 0,
      success_count |-> 0, error_count |-> 0, last_error |-> "None" ]

InitSyncVars(sync_fields, sync_options) ==
    /\ job = job_data(sync_fields, sync_options)
    /\ phase = "idle"
    /\ matched_data = <<>>
    /\ sync_data = <<>>
    /\ idx = 1
    /\ results = <<>>
    /\ result = [success |-> FALSE, error |-> "None", records_synced |-> 0]
    /\ reqs = {}
    /\ attempted = <<>>
    /\ own = <<>>

\* --------------------------------------------- scheduled jobs: the storage
\* A job id is a string; it is kept as the sequence of its pieces so that the
\* file name built from it and the id read back from a file name are computed
\* as the code computes them.  "daily.json" is <<"daily", ".json">>.
JobIds == { <<"daily">>, <<"daily", ".json">> }

Vias == {"trigger", "manual"}

\* None where a dict is expected: no file, no registration, no call in flight.
Missing == [missing |-> TRUE]

\* f"job_config_{job_id}.json"
config_file(job_id) == <<"job_config_">> \o job_id \o <<".json">>

\* load_scheduled_jobs line 500:
\* filename.replace('job_config_', '').replace('.json', '')
is_id_piece(piece) == piece \notin {"job_config_", ".json"}

listed_job_id(filename) == SelectSeq(filename, is_id_piece)

\* The column mapping of the feed configuration the jobs share, and the
\* mappings a job may carry (field -> column).
FeedMappings ==
    { [k \in {"SKU", "Quantity"} |-> IF k = "SKU" THEN "sku" ELSE "qty"] }

JobMappings == { EmptyDict, [k \in {"Quantity"} |-> "stock_b"] }

ScheduleTypes == {"interval", "other"}

\* dict.update
update(d, o) == [k \in DOMAIN d \cup DOMAIN o |-> IF k \in DOMAIN o THEN o[k] ELSE d[k]]

\* execute_sync_job lines 178-187: column_mapping is the feed configuration's
\* own dict when that is not empty, a new dict otherwise; the job's mapping is
\* written into it.  used is the mapping the run applies, feed what the feed
\* configuration in memory holds afterwards.
apply_column_mapping(feed_mapping, job_mapping) ==
    [ used |-> update(feed_mapping, job_mapping),
      feed |-> IF DOMAIN feed_mapping # {}
               THEN update(feed_mapping, job_mapping)
               ELSE feed_mapping ]

\* job_data as add_scheduled_sync creates it (lines 76-91), cut to the keys
\* the lifecycle reads.
scheduled_job(job_id, schedule_type, column_mapping) ==
    [ job_id |-> job_id, schedule_type |-> schedule_type,
      column_mapping |-> column_mapping,
      run_count |-> 0, success_count |-> 0, error_count |-> 0 ]

\* save_job_config: the file is written, or the write fails and the exception
\* is logged (lines 443-447).
save_job_config(fs, job_id, data, write_ok) ==
    IF write_ok THEN [fs EXCEPT ![job_id] = data] ELSE fs

\* load_job_config of an id (any string).
load_job_config(fs, job_id) ==
    IF job_id \in DOMAIN fs THEN fs[job_id] ELSE Missing

\* delete_job_config
delete_job_config(fs, job_id, remove_ok) ==
    IF fs[job_id] # Missing /\ remove_ok THEN [fs EXCEPT ![job_id] = Missing] ELSE fs

\* log_job_execution line 485: history[-100:]
history_cap == 100

\* log_job_execution lines 482-485, on the history it read.
log_job_execution(read, rec) ==
    LET h == Append(read, rec) IN
    IF Len(h) > history_cap THEN SubSeq(h, Len(h) - history_cap + 1, Len(h)) ELSE h

\* load_scheduled_jobs: every job_config_*.json of the directory, the id read
\* from its name, the definition loaded under that id, a trigger registered
\* under that id (replace_existing).
load_scheduled_jobs(fs) ==
    LET listing == { config_file(j) : j \in { i \in DOMAIN fs : fs[i] # Missing } }
        ids == { listed_job_id(f) : f \in listing }
    IN  [ j \in DOMAIN fs |->
            IF /\ j \in ids
               /\ load_job_config(fs, j) # Missing
               /\ load_job_config(fs, j).schedule_type \in {"cron", "interval"}
            THEN load_job_config(fs, j)
            ELSE Missing ]

\* What a run of execute_sync_job ends in: "ok", or the failure it suffers.
RunOutcomes == {"ok", "download_failed", "missing_columns", "catalog_error",
                "temporarily_unavailable"}

\* The inner handler, lines 229-237: an exception of the catalog part is
\* re-raised unless its text holds "temporarily unavailable".
inner_except(outcome) ==
    IF outcome = "temporarily_unavailable" THEN "ok" ELSE outcome

\* Mutant: the outer handler lets a catalog error through.
outer_except_feed_only(exc) == exc # "catalog_error"

\* The outer handler, line 254: except Exception catches whatever was raised.
outer_except(exc) == TRUE

\* Mutant: a run that found the catalog temporarily unavailable is counted
\* neither as a success nor as an error.
mark_run_skip_unavailable(data, outcome) ==
    IF outcome = "temporarily_unavailable"
    THEN data
    ELSE IF outcome = "ok"
    THEN [data EXCEPT !.success_count = @ + 1]
    ELSE [data EXCEPT !.error_count = @ + 1]

\* Lines 248-258: the counters after the run's body (last_error and the
\* timestamps are followed in SpecSync).
mark_run(data, outcome) ==
    IF inner_except(outcome) = "ok"
    THEN [data EXCEPT !.success_count = @ + 1]
    ELSE [data EXCEPT !.error_count = @ + 1]

\* The state of the job store after SyncScheduler() in a directory that holds
\* no job file, with the feed configuration as feed_configs.json gives it.
InitJobsVars(feed_mapping) ==
    /\ files = [j \in JobIds |-> Missing]
    /\ triggers = [j \in JobIds |-> Missing]
    /\ running = [r \in JobIds \X Vias |-> Missing]
    /\ history = [j \in JobIds |-> <<>>]
    /\ feeds = feed_mapping
    /\ feed_file = feed_mapping
    /\ finished = [j \in JobIds |-> 0]
    /\ life = [j \in JobIds |-> "new"]
    /\ overlapped = [j \in JobIds |-> FALSE]
    /\ io_failed = FALSE

\* ------------------------------------------------------------ SKUMatcher
\* A text is a sequence of one-character strings.  A DataFrame cell is a text
\* (kind "str"), an integer ("int"), float('nan') ("nan") or None ("none").
StrCell(t) == [kind |-> "str", text |-> t, val |-> 0]
IntCell(n) == [kind |-> "int", text |-> <<>>, val |-> n]
NaNCell == [kind |-> "nan", text |-> <<>>, val |-> 0]
NoneCell == [kind |-> "none", text |-> <<>>, val |-> 0]

DigitChars == <<"0", "1", "2", "3", "4", "5", "6", "7", "8", "9">>
LetterChars == {"a", "b", "c", "e", "f", "i", "n", "o", "A", "B", "N"}
ToLower == [c \in {"A", "B", "N"} |-> CASE c = "A" -> "a" [] c = "B" -> "b" [] c = "N" -> "n"]
is_digit(c) == \E d \in 1..10 : DigitChars[d] = c
digit_value(c) == (CHOOSE d \in 1..10 : DigitChars[d] = c) - 1
isspace(c) == c = " "

\* str.lower()
lower(s) == [i \in 1..Len(s) |-> IF s[i] \in DOMAIN ToLower THEN ToLower[s[i]] ELSE s[i]]

\* str.strip()
RECURSIVE lstrip(_)
lstrip(s) == IF s # <<>> /\ isspace(Head(s)) THEN lstrip(Tail(s)) ELSE s
RECURSIVE rstrip(_)
rstrip(s) == IF s # <<>> /\ isspace(s[Len(s)]) THEN rstrip(SubSeq(s, 1, Len(s) - 1)) ELSE s
strip(s) == rstrip(lstrip(s))

\* str(n) of a non-negative integer
RECURSIVE digits_of(_)
digits_of(n) ==
    IF n < 10 THEN <<DigitChars[n + 1]>>
    ELSE Append(digits_of(n \div 10), DigitChars[(n % 10) + 1])

\* str(cell): the text python makes of a cell value
str(cell) ==
    CASE cell.kind = "str" -> cell.text
      [] cell.kind = "int" -> IF cell.val < 0 THEN <<"-">> \o digits_of(0 - cell.val)
                              ELSE digits_of(cell.val)
      [] cell.kind = "nan" -> <<"n", "a", "n">>
      [] cell.kind = "none" -> <<"N", "o", "n", "e">>

\* pd.isna(value) of a scalar
isna(cell) == cell.kind \in {"nan", "none"}

\* The value of a run of decimal digits.
RECURSIVE digits_value(_)
digits_value(s) ==
    IF s = <<>> THEN 0
    ELSE 10 * digits_value(SubSeq(s, 1, Len(s) - 1)) + digit_value(s[Len(s)])

all_digits(s) == \A i \in 1..Len(s) : is_digit(s[i])

\* float(text) over texts of digits, '.', '-', '+' and letters: a sign, then
\* 'inf', 'infinity' or 'nan' in any case, or digits with an optional fraction;
\* anything else is a ValueError.  whole is the value truncated toward zero,
\* which is all int() keeps of it.
float(s) ==
    LET signed == s # <<>> /\ Head(s) \in {"-", "+"}
        neg == s # <<>> /\ Head(s) = "-"
        body == IF signed THEN Tail(s) ELSE s
        dots == { i \in 1..Len(body) : body[i] = "." }
        dot == IF dots = {} THEN Len(body) + 1 ELSE CHOOSE i \in dots : TRUE
        whole == SubSeq(body, 1, dot - 1)
        frac == SubSeq(body, dot + 1, Len(body))
    IN  IF lower(body) \in { <<"i", "n", "f">>, <<"i", "n", "f", "i", "n", "i", "t", "y">> }
        THEN [kind |-> "inf", neg |-> neg, whole |-> 0]
        ELSE IF lower(body) = <<"n", "a", "n">>
        THEN [kind |-> "nan", neg |-> neg, whole |-> 0]
        ELSE IF /\ Cardinality(dots) <= 1
                /\ all_digits(whole) /\ all_digits(frac)
                /\ Len(whole) + Len(frac) > 0
        THEN [kind |-> "num", neg |-> neg, whole |-> digits_value(whole)]
        ELSE [kind |-> "ValueError", neg |-> FALSE, whole |-> 0]

\* SKUMatcher._parse_quantity: what the call returns, or the exception that
\* leaves it.  int() of an infinity raises OverflowError, int() of a nan
\* raises ValueError; the except clause names ValueError and TypeError.
_parse_quantity(quantity_value) ==
    IF isna(quantity_value) THEN [raises |-> "none", value |-> 0]
    ELSE LET qty_str == SelectSeq(strip(str(quantity_value)), LAMBDA c : c # ",")
             qty_float == float(qty_str)
         IN  CASE qty_float.kind = "ValueError" -> [raises |-> "none", value |-> 0]
               [] qty_float.kind = "nan" -> [raises |-> "none", value |-> 0]
               [] qty_float.kind = "inf" -> [raises |-> "OverflowError", value |-> 0]
               [] qty_float.kind = "num" ->
                    [raises |-> "none",
                     value |-> IF qty_float.neg THEN 0 - qty_float.whole ELSE qty_float.whole]

\* dict[key] = value on a dict kept as the sequence of its items in insertion
\* order: a key already present keeps its place and takes the new value.
dict_set(d, key, value) ==
    IF \E i \in 1..Len(d) : d[i].sku = key
    THEN [i \in 1..Len(d) |-> IF d[i].sku = key THEN value ELSE d[i]]
    ELSE Append(d, value)

RECURSIVE add_variants(_, _)
add_variants(sku_map, variants) ==
    IF variants = <<>> THEN sku_map
    ELSE LET variant == Head(variants)
             sku == strip(variant.sku)
         IN  add_variants(IF sku # <<>>
                          THEN dict_set(sku_map, sku, [sku |-> sku, variant_id |-> variant.id])
                          ELSE sku_map,
                          Tail(variants))

\* SKUMatcher._create_shopify_sku_map
RECURSIVE add_products(_, _)
add_products(sku_map, products) ==
    IF products = <<>> THEN sku_map
    ELSE add_products(add_variants(sku_map, Head(products).variants), Tail(products))
_create_shopify_sku_map(products) == add_products(<<>>, products)

\* A match result of _find_exact_match / _find_fuzzy_match; confidence is in
\* hundredths (100 is 1.0).  NoResult is the None both return on a miss.
NoResult == [sku |-> <<>>, variant_id |-> None, match_type |-> "none", confidence |-> None]

\* SKUMatcher._find_exact_match
_find_exact_match(file_sku, shopify_sku_map) ==
    LET same == { i \in 1..Len(shopify_sku_map) : shopify_sku_map[i].sku = file_sku }
        same_lower == { i \in 1..Len(shopify_sku_map) :
                           lower(file_sku) = lower(shopify_sku_map[i].sku) }
        hit(i) == [sku |-> shopify_sku_map[i].sku, variant_id |-> shopify_sku_map[i].variant_id,
                   match_type |-> "exact", confidence |-> 100]
    IN  IF same # {} THEN hit(CHOOSE i \in same : TRUE)
        ELSE IF same_lower # {}
        THEN hit(CHOOSE i \in same_lower : \A k \in same_lower : i <= k)
        ELSE NoResult

\* fuzzywuzzy utils.full_process, the processor extractOne applies to the query
\* and to every choice when the scorer is fuzz.ratio: every character that is
\* not a letter or a digit becomes a space, then lower case, then strip.
full_process(s) ==
    strip(lower([i \in 1..Len(s) |->
                   IF s[i] \in LetterChars \/ is_digit(s[i]) THEN s[i] ELSE " "]))

\* Length of the longest common subsequence: the matching characters M of
\* SequenceMatcher on texts this short.
RECURSIVE lcs(_, _)
lcs(a, b) ==
    IF a = <<>> \/ b = <<>> THEN 0
    ELSE IF Head(a) = Head(b) THEN 1 + lcs(Tail(a), Tail(b))
    ELSE Max(lcs(Tail(a), b), lcs(a, Tail(b)))

\* fuzz.ratio: 100 for equal texts, 0 when one is empty, else
\* int(round(100 * 2M / (len(s1) + len(s2)))).
ratio(s1, s2) ==
    IF s1 = s2 THEN 100
    ELSE IF s1 = <<>> \/ s2 = <<>> THEN 0
    ELSE (400 * lcs(s1, s2) + Len(s1) + Len(s2)) \div (2 * (Len(s1) + Len(s2)))

\* process.extractOne(query, choices, scorer=fuzz.ratio) on a non-empty list:
\* the first choice with the highest score.
extractOne(query, choices) ==
    LET score(i) == ratio(full_process(query), full_process(choices[i]))
        best == CHOOSE i \in 1..Len(choices) :
                    \A k \in 1..Len(choices) :
                        score(k) <= score(i) /\ (k < i => score(k) < score(i))
    IN  [choice |-> best, score |-> score(best)]

\* SKUMatcher._find_fuzzy_match
_find_fuzzy_match(file_sku, shopify_sku_map, fuzzy_threshold) ==
    IF shopify_sku_map = <<>> THEN NoResult
    ELSE LET shopify_skus == [i \in 1..Len(shopify_sku_map) |-> shopify_sku_map[i].sku]
             best_match == extractOne(file_sku, shopify_skus)
         IN  IF best_match.score >= fuzzy_threshold
             THEN [sku |-> shopify_skus[best_match.choice],
                   variant_id |-> shopify_sku_map[best_match.choice].variant_id,
                   match_type |-> "fuzzy", confidence |-> best_match.score]
             ELSE NoResult

\* match_skus(df, column_mapping, shopify_products) entered on
\* SKUMatcher(client, fuzzy_threshold): the lookup of line 34 is built,
\* matched_data is empty and the loop stands before the first row.
\* fuzzy_rows records the rows for which line 51 called _find_fuzzy_match.
InitMatchVars(frame, products, threshold) ==
    /\ df = frame
    /\ shopify_products = products
    /\ matcher = [fuzzy_threshold |-> threshold, pc |-> "loop", index |-> 1,
                  shopify_sku_map |-> _create_shopify_sku_map(products),
                  matched_data |-> <<>>, fuzzy_rows |-> {}]

\* -------------------------------------------- the write payload of an item
\* The keys of the item match_skus builds for a matched row (sku_matcher.py
\* lines 54-65).
ItemKeys == {"file_sku", "shopify_sku", "variant_id", "product_id", "product_title",
             "current_quantity", "new_quantity", "match_type", "confidence", "row_index"}

\* item.get(key): None for a key the item does not have.  Of the keys the
\* executor reads the item has new_quantity only.
item_get(item, key) ==
    IF key \in ItemKeys /\ key = "new_quantity" THEN IntCell(item.new_quantity) ELSE NoneCell

\* update_data as perform_batch_sync builds it for an item (scheduler.py lines
\* 341-350): 'quantity' is item.get('new_quantity'), every other key is
\* item.get of its own name.
update_data(item) ==
    [ k \in UpdateDataKeys |->
        item_get(item, IF k = "quantity" THEN "new_quantity" ELSE k) ]

\* What the requests of one update carry (update_product_fields lines 386-427,
\* update_inventory): <<request, attribute, value>> for the requests sent.
\* price and compare_at_price go through str().
write_payload(sync_fields, item, sent) ==
    { <<"PUT_product", k, update_data(item)[k]>> :
        k \in IF "PUT_product" \in sent THEN product_updates(sync_fields) ELSE {} }
    \cup { <<"PUT_variant", k,
             IF k \in {"price", "compare_at_price"}
             THEN StrCell(str(update_data(item)[k]))
             ELSE update_data(item)[k]>> :
           k \in IF "PUT_variant" \in sent THEN variant_updates(sync_fields) ELSE {} }
    \cup { <<"POST_inventory_set", "quantity", update_data(item)["quantity"]>> :
           k \in IF "POST_inventory_set" \in sent THEN {"quantity"} ELSE {} }

\* ------------------------------- scheduled run: from the mapping to the marking
\* column_mapper.py: the entry of a field no column was chosen for.
Unselected == "-- Select Column --"

\* df.columns of the downloaded feed.
FeedColumns ==
    { {"SKU", "Quantity"}, {"sku", "qty"}, {"sku"}, {"Temporarily unavailable", "qty"} }

\* The column_mapping (field -> column) of a feed configuration or of a job.
ColumnMappings ==
    { EmptyDict,
      [k \in {"SKU", "Quantity"} |-> k],
      [k \in {"SKU", "Quantity"} |-> IF k = "SKU" THEN "sku" ELSE "qty"],
      [k \in {"SKU"} |-> "sku"],
      [k \in {"Quantity"} |-> "qty"],
      [k \in {"SKU", "Quantity"} |-> IF k = "SKU" THEN "Temporarily unavailable" ELSE "qty"],
      [k \in {"SKU", "Quantity"} |-> IF k = "SKU" THEN Unselected ELSE "qty"] }

\* ColumnMapper.get_mapped_data: the columns of the frame it returns, one per
\* mapped field whose column the feed has, named after the field.
get_mapped_data(columns, mapping) ==
    { field \in DOMAIN mapping : mapping[field] # Unselected /\ mapping[field] \in columns }

\* execute_sync_job lines 190-193: the mapping is applied when it is not empty.
mapped_columns(columns, column_mapping) ==
    IF DOMAIN column_mapping # {} THEN get_mapped_data(columns, column_mapping) ELSE columns

\* Mutant: the validation looks for the SKU column only.
required_columns_sku_only(columns) == "SKU" \in columns

\* execute_sync_job line 196: both required columns are in df.columns.
required_columns(columns) == "SKU" \in columns /\ "Quantity" \in columns

\* match_skus lines 27-41 on a frame with at least one row: what reading the
\* two columns raises.  The text of a KeyError is the column name (in quotes).
match_columns(columns, column_mapping) ==
    IF ~({"SKU", "Quantity"} \subseteq DOMAIN column_mapping)
    THEN [raises |-> "ValueError", text |-> "SKU and Quantity columns must be mapped"]
    ELSE IF column_mapping["SKU"] \notin columns
    THEN [raises |-> "KeyError", text |-> column_mapping["SKU"]]
    ELSE IF column_mapping["Quantity"] \notin columns
    THEN [raises |-> "KeyError", text |-> column_mapping["Quantity"]]
    ELSE [raises |-> "none", text |-> "None"]

\* str.lower() on the texts that differ from their lower case.
lower_text(t) ==
    CASE t = "SKU" -> "sku"
      [] t = "Quantity" -> "quantity"
      [] t = "Temporarily unavailable" -> "temporarily unavailable"
      [] t = Unselected -> "-- select column --"
      [] t = "SKU and Quantity columns must be mapped" -> "sku and quantity columns must be mapped"
      [] OTHER -> t

\* "temporarily unavailable" in t, for the lower-case texts above.
holds_unavailable(t) == t \in {"temporarily unavailable"}

\* What one page request of _get_paginated_results ends in: a page of limit
\* items, a shorter (or empty) page, or an exception of _make_request.
PageOutcomes == {"full", "short", "error"}

\* Lines 248-252, with the error the execution record holds by then.
mark_successful(r, error) ==
    [r EXCEPT !.pc = "done",
              !.result = [success |-> TRUE, error |-> error],
              !.job.success_count = @ + 1,
              !.job.last_error = "None"]

\* Lines 254-258: the outer handler.
mark_failed(r, error_msg) ==
    [r EXCEPT !.pc = "done",
              !.result = [success |-> FALSE, error |-> error_msg],
              !.job.last_error = error_msg,
              !.job.error_count = @ + 1]

\* The call's own part of the state, at its start (lines 143-150).
run_start(columns) ==
    [ column_mapping |-> EmptyDict, df_columns |-> columns, pages |-> 0,
      fetch_failed |-> FALSE, catalog_reqs |-> 0, matched |-> FALSE, wrote |-> FALSE,
      result |-> [success |-> FALSE, error |-> "None"] ]

InitRunVars(columns, feed_mapping, job_mapping) ==
    run = [ pc |-> "start", columns |-> columns,
            feed_mapping |-> feed_mapping, job_mapping |-> job_mapping,
            column_mapping |-> run_start(columns).column_mapping,
            df_columns |-> run_start(columns).df_columns,
            pages |-> 0, fetch_failed |-> FALSE, catalog_reqs |-> 0,
            matched |-> FALSE, wrote |-> FALSE,
            result |-> run_start(columns).result,
            job |-> [run_count |-> 0, success_count |-> 0, error_count |-> 0,
                     last_error |-> "None"] ]

\* ------------------------------------------------ restart: the directory
\* What load_job_config returns for a job_config file of the directory: None
\* (Missing) for one that cannot be read or parsed, else its schedule_type and
\* whether the trigger class accepts its schedule_config.
FileContents ==
    {Missing} \cup { [schedule_type |-> t, schedule_ok |-> ok] :
                       t \in {"cron", "interval", "other"}, ok \in BOOLEAN }

\* load_scheduled_jobs lines 503-521 for one loaded definition: the trigger
\* constructor raises, or the job is registered, or the file is passed over.
restore_job(loaded) ==
    IF loaded = Missing THEN "skip"
    ELSE IF loaded.schedule_type \in {"cron", "interval"}
    THEN IF loaded.schedule_ok THEN "add_job" ELSE "raise"
    ELSE "skip"

InitBootVars(listing) ==
    boot = [listing |-> listing, next |-> 1, registered |-> {}, pc |-> "loop"]

\* ------------------------------------------- SpecBreaker: concurrent call()
InitGatewayVars ==
    /\ rl \in { AdaptiveRateLimiter(c.initial_delay, c.max_delay) : c \in LimiterConfigs }
    /\ g = [pc |-> "idle", attempt |-> 0, retry_at |-> 0, waited |-> FALSE, result |-> "none"]
    /\ sc = [pc |-> "idle", attempt |-> 0, retry_at |-> 0, last_request_time |-> 0,
             waited |-> FALSE, result |-> "none"]
    /\ net = [via |-> "none", waited |-> FALSE, gated |-> FALSE, blocked |-> FALSE]

InitBreakerVars ==
    /\ now = 1
    /\ pc = [c \in Callers |-> "idle"]
    /\ entered_in = [c \in Callers |-> "none"]
    /\ consec = 0
    /\ ev = [kind |-> "init", caller |-> 0, from |-> "CLOSED"]

InitBreaker ==
    /\ InitMatchVars(<<>>, <<>>, 85)
    /\ InitRunVars({}, EmptyDict, EmptyDict)
    /\ InitBootVars(<<>>)
    /\ InitGatewayVars
    /\ InitSyncVars(EmptyDict, [batch_size |-> 5, skip_zero_inventory |-> FALSE])
    /\ InitJobsVars(EmptyDict)
    /\ InitBreakerVars
    /\ cb \in { CircuitBreaker(ft, rt) : ft \in Thresholds, rt \in RecoveryTimeouts }

\* A caller enters call(): rejected at once, or let through to func.
CallBegin(c) ==
    /\ pc[c] = "idle"
    /\ LET gate == call_gate(cb, now) IN
       /\ cb' = gate.cb
       /\ IF gate.admit
          THEN /\ pc' = [pc EXCEPT ![c] = "in_func"]
               /\ entered_in' = [entered_in EXCEPT ![c] = cb.state]
               /\ ev' = [kind |-> "admit", caller |-> c, from |-> cb.state]
          ELSE /\ UNCHANGED <<pc, entered_in>>
               /\ ev' = [kind |-> "reject", caller |-> c, from |-> cb.state]
    /\ UNCHANGED <<now, consec, gatewayVars, syncVars, jobsVars, matchVars, runVars, bootVars>>

\* func returned: lines 39-41.
CallSucceed(c) ==
    /\ pc[c] = "in_func"
    /\ cb' = _on_success(cb)
    /\ pc' = [pc EXCEPT ![c] = "idle"]
    /\ entered_in' = [entered_in EXCEPT ![c] = "none"]
    /\ consec' = 0
    /\ ev' = [kind |-> "success", caller |-> c, from |-> cb.state]
    /\ UNCHANGED <<now, gatewayVars, syncVars, jobsVars, matchVars, runVars, bootVars>>

\* func raised: lines 42-44.
CallFail(c) ==
    /\ pc[c] = "in_func"
    /\ cb' = _on_failure(cb, now)
    /\ pc' = [pc EXCEPT ![c] = "idle"]
    /\ entered_in' = [entered_in EXCEPT ![c] = "none"]
    /\ consec' = consec + 1
    /\ ev' = [kind |-> "failure", caller |-> c, from |-> cb.state]
    /\ UNCHANGED <<now, gatewayVars, syncVars, jobsVars, matchVars, runVars, bootVars>>

\* The clock advances.
Tick ==
    /\ now < MaxTime
    /\ now' = now + 1
    /\ UNCHANGED <<cb, pc, entered_in, rl, g, sc, net>>
    /\ UNCHANGED <<syncVars, jobsVars, matchVars, runVars, bootVars>>

\* ResilientAPIClient.reset()
reset ==
    /\ (cb # reset_breaker(cb) \/ rl # reset_limiter(rl))
    /\ cb' = reset_breaker(cb)
    /\ rl' = reset_limiter(rl)
    /\ UNCHANGED <<now, pc, entered_in, g, sc, net>>
    /\ UNCHANGED <<syncVars, jobsVars, matchVars, runVars, bootVars>>

\* The history variables consec and ev follow the breaker in SpecBreaker only.
NextBreaker ==
    \/ \E c \in Callers : CallBegin(c)
    \/ \E c \in Callers : CallSucceed(c)
    \/ \E c \in Callers : CallFail(c)
    \/ Tick /\ ev' = [kind |-> "tick", caller |-> 0, from |-> cb.state] /\ UNCHANGED consec
    \/ reset /\ ev' = [kind |-> "reset", caller |-> 0, from |-> cb.state] /\ consec' = 0

SpecBreaker == InitBreaker /\ [][NextBreaker]_vars

\* ----------------------- SpecBreakerLive: func succeeds from some point on
\* The last clock value at which func may still raise: late enough for the
\* breaker to open, early enough for the longest recovery_timeout to elapse
\* before the clock of the model stops.
FailUntil == MaxTime - (CHOOSE r \in RecoveryTimeouts : \A q \in RecoveryTimeouts : q <= r)

\* func raised (lines 42-44), while the dependency is still failing.
CallFailEarly(c) ==
    /\ now <= FailUntil
    /\ CallFail(c)

\* The clock advances, with the history variables of the breaker.
TickBreaker ==
    /\ Tick
    /\ ev' = [kind |-> "tick", caller |-> 0, from |-> cb.state]
    /\ UNCHANGED consec

NextBreakerLive ==
    \/ \E c \in Callers : CallBegin(c)
    \/ \E c \in Callers : CallSucceed(c)
    \/ \E c \in Callers : CallFailEarly(c)
    \/ TickBreaker

\* Time keeps advancing, every caller keeps calling, and a call that is in
\* func comes back.
FairBreaker ==
    /\ WF_vars(TickBreaker)
    /\ \A c \in Callers : WF_vars(CallBegin(c))
    /\ \A c \in Callers : WF_vars(CallSucceed(c))

SpecBreakerLive == InitBreaker /\ [][NextBreakerLive]_vars /\ FairBreaker

\* ------------------------- SpecGateway: the gateway beside the catalog client
\* What the catalog service answers to one HTTP request: a status below 400,
\* 429, 529, another 5xx, a 4xx other than 429, or no answer (ConnectionError).
Responses == {"ok", "r429", "r529", "r5xx", "r4xx", "conn"}

\* retry_if_exception_type((APIOverloadError, RateLimitError, ConnectionError))
retry_if_exception_type(resp) == resp \in {"r429", "r529", "conn"}

\* stop_after_attempt(10)
stop_after_attempt == 10

\* wait_exponential(multiplier=1, min=1, max=60), after attempt number n
wait_exponential(n) == Max(1, Min(2 ^ (n - 1), 60))

\* The breaker is OPEN and recovery_timeout has not elapsed.
Blocked(b, t) == b.state = "OPEN" /\ ~_should_attempt_reset(b, t)

\* Lines 222-236 of _make_request: what the response does to the limiter.
limiter_after(l, resp, retry_after) ==
    CASE resp = "r429" -> on_rate_limit(l, retry_after)
      [] resp = "r529" -> on_overload(l)
      [] resp = "ok"   -> on_success(l)
      [] OTHER         -> l

\* make_request(method, url) is called: the first attempt of _request is due.
GStart ==
    /\ g.pc = "idle"
    /\ g' = [pc |-> "wait", attempt |-> 1, retry_at |-> now, waited |-> FALSE,
             result |-> "none"]
    /\ UNCHANGED <<cb, now, pc, entered_in, consec, ev, rl, sc, net, syncVars, jobsVars, matchVars, runVars, bootVars>>

\* An attempt starts (tenacity's sleep is over): self.rate_limiter.wait().
GWait ==
    /\ g.pc = "wait"
    /\ now >= g.retry_at
    /\ wait_elapsed(rl, now)
    /\ rl' = wait(rl, now)
    /\ g' = [g EXCEPT !.pc = "call", !.waited = TRUE]
    /\ UNCHANGED <<cb, now, pc, entered_in, consec, ev, sc, net, syncVars, jobsVars, matchVars, runVars, bootVars>>

\* self.circuit_breaker.call(_make_request), line 241, and what tenacity does
\* with the outcome.
GCall(resp, retry_after) ==
    /\ g.pc = "call"
    /\ LET gate == call_gate(cb, now) IN
       IF ~gate.admit
       THEN \* plain Exception: not retried
            /\ cb' = gate.cb
            /\ g' = [g EXCEPT !.pc = "idle", !.waited = FALSE, !.result = "circuit_open"]
            /\ UNCHANGED <<rl, net>>
       ELSE /\ net' = [via |-> "gateway", waited |-> g.waited, gated |-> TRUE,
                       blocked |-> Blocked(cb, now)]
            /\ rl' = limiter_after(rl, resp, retry_after)
            /\ cb' = IF resp = "ok" THEN _on_success(gate.cb) ELSE _on_failure(gate.cb, now)
            /\ g' = IF resp = "ok"
                    THEN [g EXCEPT !.pc = "idle", !.waited = FALSE, !.result = "ok"]
                    ELSE IF retry_if_exception_type(resp) /\ g.attempt < stop_after_attempt
                    THEN [g EXCEPT !.pc = "wait", !.waited = FALSE,
                                   !.attempt = @ + 1,
                                   !.retry_at = now + wait_exponential(g.attempt)]
                    ELSE [g EXCEPT !.pc = "idle", !.waited = FALSE,
                                   !.result = IF retry_if_exception_type(resp)
                                              THEN "retry_error" ELSE "error"]
    /\ UNCHANGED <<now, pc, entered_in, consec, ev, sc, syncVars, jobsVars, matchVars, runVars, bootVars>>

\* ShopifyClient: self.min_request_interval = 0.5
min_request_interval == 5 * 1000 * 1000

\* ShopifyClient._make_request: max_retries = 3
max_retries == 3

\* ShopifyClient._make_request is called (any endpoint): lines 81-95, the
\* client's own minimum interval, then the first pass of the loop is due.
SStart ==
    /\ sc.pc = "idle"
    /\ (now - sc.last_request_time) * UnitsPerSecond >= min_request_interval
    /\ sc' = [sc EXCEPT !.pc = "try", !.attempt = 0, !.retry_at = now, !.result = "none"]
    /\ UNCHANGED <<cb, now, pc, entered_in, consec, ev, rl, g, net, syncVars, jobsVars, matchVars, runVars, bootVars>>

\* One pass of the loop, lines 96-144: requests.request sends the request
\* itself; neither the limiter nor the breaker is consulted.
STry(resp, retry_after) ==
    /\ sc.pc = "try"
    /\ now >= sc.retry_at
    /\ net' = [via |-> "client", waited |-> sc.waited, gated |-> FALSE,
               blocked |-> Blocked(cb, now)]
    /\ LET stamped == IF resp = "conn" THEN sc ELSE [sc EXCEPT !.last_request_time = now]
           last == sc.attempt >= max_retries - 1
           pause == IF resp = "r429"
                    THEN (IF retry_after = None THEN 2 ELSE retry_after)
                    ELSE 2 ^ sc.attempt
       IN sc' = IF resp = "ok"
                THEN [stamped EXCEPT !.pc = "idle", !.result = "ok"]
                ELSE IF last
                THEN [stamped EXCEPT !.pc = "idle", !.result = "error"]
                ELSE [stamped EXCEPT !.attempt = @ + 1, !.retry_at = now + pause]
    /\ UNCHANGED <<cb, now, pc, entered_in, consec, ev, rl, g, syncVars, jobsVars, matchVars, runVars, bootVars>>

NextGateway ==
    \/ GStart
    \/ GWait
    \/ \E resp \in Responses, ra \in RetryAfters : GCall(resp, ra)
    \/ SStart
    \/ \E resp \in Responses, ra \in RetryAfters : STry(resp, ra)
    \/ Tick /\ UNCHANGED <<consec, ev>>
    \/ reset /\ UNCHANGED <<consec, ev>>

\* create_resilient_session(0.5, 1.0, failure_threshold = 2, recovery_timeout = 3)
InitGateway ==
    /\ InitMatchVars(<<>>, <<>>, 85)
    /\ InitRunVars({}, EmptyDict, EmptyDict)
    /\ InitBootVars(<<>>)
    /\ InitGatewayVars
    /\ InitSyncVars(EmptyDict, [batch_size |-> 5, skip_zero_inventory |-> FALSE])
    /\ InitJobsVars(EmptyDict)
    /\ InitBreakerVars
    /\ cb = CircuitBreaker(2, 3)

SpecGateway == InitGateway /\ [][NextGateway]_vars

\* ------------------------------- SpecLimiter: the limiter's handlers alone
\* AdaptiveRateLimiter(initial_delay, max_delay) as create_resilient_session
\* builds it: (0.5, 1.0), and with the defaults of both, (0.5, 10.0).
LimiterInputs ==
    { [initial_delay |-> 5 * 1000 * 1000, max_delay |-> 10 * 1000 * 1000],
      [initial_delay |-> 5 * 1000 * 1000, max_delay |-> 100 * 1000 * 1000] }

\* A response below 400 arrives: on_success().  A decay step is taken where
\* 0.9 x current_delay is a whole number of units.
LOnSuccess ==
    /\ (rl.success_count < 4 \/ (rl.current_delay * 9) % 10 = 0)
    /\ rl' = on_success(rl)
    /\ UNCHANGED <<cb, now, pc, entered_in, consec, ev, g, sc, net, syncVars, jobsVars, matchVars, runVars, bootVars>>

\* A 429 arrives: on_rate_limit(int(Retry-After) or None).
LOnRateLimit(retry_after) ==
    /\ rl' = on_rate_limit(rl, retry_after)
    /\ UNCHANGED <<cb, now, pc, entered_in, consec, ev, g, sc, net, syncVars, jobsVars, matchVars, runVars, bootVars>>

\* A 529 arrives: on_overload().
LOnOverload ==
    /\ rl' = on_overload(rl)
    /\ UNCHANGED <<cb, now, pc, entered_in, consec, ev, g, sc, net, syncVars, jobsVars, matchVars, runVars, bootVars>>

NextLimiter ==
    \/ LOnSuccess
    \/ \E ra \in RetryAfters : LOnRateLimit(ra)
    \/ LOnOverload

InitLimiter ==
    /\ InitMatchVars(<<>>, <<>>, 85)
    /\ InitRunVars({}, EmptyDict, EmptyDict)
    /\ InitBootVars(<<>>)
    /\ rl \in { AdaptiveRateLimiter(c.initial_delay, c.max_delay) : c \in LimiterInputs }
    /\ g = [pc |-> "idle", attempt |-> 0, retry_at |-> 0, waited |-> FALSE, result |-> "none"]
    /\ sc = [pc |-> "idle", attempt |-> 0, retry_at |-> 0, last_request_time |-> 0,
             waited |-> FALSE, result |-> "none"]
    /\ net = [via |-> "none", waited |-> FALSE, gated |-> FALSE, blocked |-> FALSE]
    /\ InitSyncVars(EmptyDict, [batch_size |-> 5, skip_zero_inventory |-> FALSE])
    /\ InitJobsVars(EmptyDict)
    /\ InitBreakerVars
    /\ cb = CircuitBreaker(2, 3)

SpecLimiter == InitLimiter /\ [][NextLimiter]_vars

\* ------------------------------------------ SpecSync: execute_sync_job runs
\* execute_sync_job is entered (a trigger fire or run-now), lines 142-213: the
\* counters, the feed, the mapping, the catalog snapshot and reconciliation.
StartRun(pre, md) ==
    /\ phase = "idle"
    /\ job.run_count < MaxRuns
    /\ reqs' = {}
    /\ results' = <<>>
    /\ attempted' = <<>>
    /\ own' = <<>>
    /\ idx' = 1
    /\ IF pre = "ok"
       THEN /\ matched_data' = md
            /\ sync_data' = SelectSeq(md, exact_only)
            /\ phase' = "sync"
            /\ job' = [job EXCEPT !.run_count = @ + 1]
            /\ result' = [success |-> FALSE, error |-> "None", records_synced |-> 0]
       ELSE \* lines 254-269
            /\ matched_data' = <<>>
            /\ sync_data' = <<>>
            /\ phase' = "idle"
            /\ job' = [job EXCEPT !.run_count = @ + 1, !.error_count = @ + 1,
                                  !.last_error = pre]
            /\ result' = [success |-> FALSE, error |-> pre, records_synced |-> 0]
    /\ UNCHANGED <<breakerVars, gatewayVars, jobsVars, matchVars, runVars, bootVars>>

\* One pass of the inner loop of perform_batch_sync, lines 333-404.
SyncItem(op, ov, inv) ==
    /\ phase = "sync"
    /\ idx <= Len(sync_data)
    /\ LET item == sync_data[idx]
           fields == effective_fields(job.sync_fields)
           u == update_item(fields, op, ov, inv)
       IN  IF skip_zero(job.sync_options, item)
           THEN /\ idx' = idx + 1
                /\ UNCHANGED <<results, reqs, attempted, own>>
           ELSE /\ reqs' = reqs \cup { <<item.row_index, k>> : k \in u.reqs }
                /\ attempted' = Append(attempted, idx)
                /\ own' = Append(own, [raised |-> u.raised, call_failed |-> u.call_failed,
                                        payload |-> write_payload(fields, item, u.reqs)])
                /\ results' = Append(results,
                                [ variant_id |-> item.variant_id,
                                  success    |-> u.raised = "none",
                                  error      |-> u.raised ])
                /\ idx' = next_index(idx, u.raised, job.sync_options.batch_size)
    /\ UNCHANGED <<job, phase, matched_data, sync_data, result>>
    /\ UNCHANGED <<breakerVars, gatewayVars, jobsVars, matchVars, runVars, bootVars>>

\* perform_batch_sync has returned: lines 221-271.
FinishRun ==
    /\ phase = "sync"
    /\ idx > Len(sync_data)
    /\ phase' = "idle"
    /\ result' = [result EXCEPT
                    !.success = TRUE,
                    !.records_synced = Cardinality({ k \in 1..Len(results) : results[k].success })]
    /\ job' = [job EXCEPT !.success_count = @ + 1, !.last_error = "None"]
    /\ UNCHANGED <<matched_data, sync_data, idx, results, reqs, attempted, own>>
    /\ UNCHANGED <<breakerVars, gatewayVars, jobsVars, matchVars, runVars, bootVars>>

\* The requests an update makes that are not reached need no outcome.
OutcomesIf(issued) == IF issued THEN Outcomes ELSE {"ok"}

InvOutcomesIf(issued) == IF issued THEN InvOutcomes ELSE {[stage |-> "done", raised |-> "none"]}

\* update_inventory is reached by the fallback of lines 369-373, or from
\* update_product_fields when the toggle is on.
calls_update_inventory(sync_fields) ==
    ~any_enabled(sync_fields) \/ Get(sync_fields, "inventory_quantity")

NextSync ==
    \/ \E pre \in PreOutcomes \ {"ok"} : StartRun(pre, <<>>)
    \/ \E md \in MatchedLists : StartRun("ok", md)
    \/ \E op \in OutcomesIf(product_updates(effective_fields(job.sync_fields)) # {}) :
          \E ov \in OutcomesIf(op = "ok" /\ variant_updates(effective_fields(job.sync_fields)) # {}) :
             \E inv \in InvOutcomesIf(op = "ok" /\ ov = "ok"
                                      /\ calls_update_inventory(effective_fields(job.sync_fields))) :
                SyncItem(op, ov, inv)
    \/ FinishRun

InitSync ==
    /\ InitMatchVars(<<>>, <<>>, 85)
    /\ InitRunVars({}, EmptyDict, EmptyDict)
    /\ InitBootVars(<<>>)
    /\ InitGatewayVars
    /\ InitBreakerVars
    /\ \E f \in PolicyInputs, o \in OptionInputs : InitSyncVars(f, o)
    /\ InitJobsVars(EmptyDict)
    /\ cb = CircuitBreaker(2, 3)

SpecSync == InitSync /\ [][NextSync]_vars

\* --------------------------------- SpecJobs: the lifecycle of scheduled jobs
\* add_scheduled_sync(job_id, feed, schedule_type, ..., column_mapping) for an
\* id that was not added before (an id is added once in a behaviour).  An invalid schedule type raises at line 99 and
\* False is returned; otherwise the trigger is registered, the definition is
\* saved (the write may fail) and True is returned.
add_scheduled_sync(j, schedule_type, column_mapping, write_ok) ==
    /\ triggers[j] = Missing
    /\ life[j] = "new"
    /\ IF schedule_type \notin {"cron", "interval"}
       THEN UNCHANGED <<files, triggers, running, life, io_failed>>
       ELSE LET data == scheduled_job(j, schedule_type, column_mapping) IN
            /\ triggers' = [triggers EXCEPT ![j] = data]
            /\ files' = save_job_config(files, j, data, write_ok)
            /\ running' = [running EXCEPT ![<<j, "trigger">>] =
                              IF @ = Missing THEN Missing ELSE [@ EXCEPT !.shared = FALSE]]
            /\ life' = [life EXCEPT ![j] = "added"]
            /\ io_failed' = (io_failed \/ ~write_ok)
    /\ UNCHANGED <<history, feeds, feed_file, finished, overlapped>>
    /\ UNCHANGED <<breakerVars, gatewayVars, syncVars, matchVars, runVars, bootVars>>

\* remove_scheduled_sync(job_id): scheduler.remove_job raises for an id it does
\* not hold (False is returned); otherwise the registration goes, the file is
\* deleted (the delete may fail) and True is returned.
remove_scheduled_sync(j, remove_ok) ==
    /\ IF triggers[j] = Missing
       THEN UNCHANGED <<files, triggers, running, life, io_failed>>
       ELSE /\ triggers' = [triggers EXCEPT ![j] = Missing]
            /\ files' = delete_job_config(files, j, remove_ok)
            /\ running' = [running EXCEPT ![<<j, "trigger">>] =
                              IF @ = Missing THEN Missing ELSE [@ EXCEPT !.shared = FALSE]]
            /\ life' = [life EXCEPT ![j] = "removed"]
            /\ io_failed' = (io_failed \/ (files[j] # Missing /\ ~remove_ok))
    /\ UNCHANGED <<history, feeds, feed_file, finished, overlapped>>
    /\ UNCHANGED <<breakerVars, gatewayVars, syncVars, matchVars, runVars, bootVars>>

\* The number of calls of execute_sync_job so far, completed and in flight.
RECURSIVE Sum(_, _)
Sum(f, S) == IF S = {} THEN 0 ELSE LET x == CHOOSE y \in S : TRUE IN f[x] + Sum(f, S \ {x})

executions ==
    Sum(finished, JobIds) + Cardinality({ r \in JobIds \X Vias : running[r] # Missing })

\* An execution enters execute_sync_job with the dict it was given: line 157.
begin_run(data, is_shared) ==
    [ data |-> [data EXCEPT !.run_count = @ + 1], shared |-> is_shared,
      stage |-> "run", rec |-> Missing, hist_read |-> <<>> ]

\* The trigger of job j fires: the scheduler calls execute_sync_job with the
\* dict of the registration.  A fire while the previous instance of the job is
\* still running is skipped by the scheduler (add_job is called without
\* max_instances, lines 102-109).
Fire(j) ==
    /\ triggers[j] # Missing
    /\ running[<<j, "trigger">>] = Missing
    /\ executions < MaxExecs
    /\ running' = [running EXCEPT ![<<j, "trigger">>] = begin_run(triggers[j], TRUE)]
    /\ triggers' = [triggers EXCEPT ![j] = [@ EXCEPT !.run_count = @ + 1]]
    /\ overlapped' = [overlapped EXCEPT ![j] = @ \/ running[<<j, "manual">>] # Missing]
    /\ UNCHANGED <<files, history, feeds, feed_file, finished, life, io_failed>>
    /\ UNCHANGED <<breakerVars, gatewayVars, syncVars, matchVars, runVars, bootVars>>

\* run_job_manually(job_id): the definition is loaded from its file and
\* execute_sync_job is called with it, in the caller's thread.
run_job_manually(j) ==
    /\ load_job_config(files, j) # Missing
    /\ running[<<j, "manual">>] = Missing
    /\ executions < MaxExecs
    /\ running' = [running EXCEPT ![<<j, "manual">>] = begin_run(load_job_config(files, j), FALSE)]
    /\ overlapped' = [overlapped EXCEPT ![j] = @ \/ running[<<j, "trigger">>] # Missing]
    /\ UNCHANGED <<files, triggers, history, feeds, feed_file, finished, life,
                   io_failed>>
    /\ UNCHANGED <<breakerVars, gatewayVars, syncVars, matchVars, runVars, bootVars>>

\* The body of execute_sync_job from line 159 to the save of line 266, and the
\* read of the history file in log_job_execution (lines 476-479).
RunBody(j, v, outcome, write_ok) ==
    /\ running[<<j, v>>] # Missing
    /\ running[<<j, v>>].stage = "run"
    /\ LET r == running[<<j, v>>]
           mapped == outcome # "download_failed"
           m == apply_column_mapping(feeds, r.data.column_mapping)
           exc == inner_except(outcome)
           caught == exc = "ok" \/ outer_except(exc)
           data == IF caught THEN mark_run(r.data, outcome) ELSE r.data
           rec == [ n |-> finished[j] + 1, success |-> exc = "ok" ]
       IN  /\ feeds' = IF mapped THEN m.feed ELSE feeds
           /\ files' = save_job_config(files, j, data, write_ok)
           /\ triggers' = IF v = "trigger" /\ r.shared /\ triggers[j] # Missing
                          THEN [triggers EXCEPT ![j] = data]
                          ELSE triggers
           /\ running' = [running EXCEPT ![<<j, v>>] =
                             [ data |-> data, shared |-> r.shared, stage |-> "log",
                               rec |-> rec, hist_read |-> history[j],
                               returns |-> caught ]]
           /\ io_failed' = (io_failed \/ ~write_ok)
           /\ finished' = [finished EXCEPT ![j] = @ + 1]
    /\ UNCHANGED <<history, feed_file, life, overlapped>>
    /\ UNCHANGED <<breakerVars, gatewayVars, syncVars, matchVars, runVars, bootVars>>

\* log_job_execution lines 482-489 (the write may fail), then execute_sync_job
\* returns its result or lets the exception out.
RunEnd(j, v, write_ok) ==
    /\ running[<<j, v>>] # Missing
    /\ running[<<j, v>>].stage = "log"
    /\ LET r == running[<<j, v>>] IN
       /\ history' = [history EXCEPT ![j] =
                         IF write_ok THEN log_job_execution(r.hist_read, r.rec) ELSE @]
       /\ io_failed' = (io_failed \/ ~write_ok)
    /\ running' = [running EXCEPT ![<<j, v>>] = Missing]
    /\ UNCHANGED <<files, triggers, feeds, feed_file, finished, life, overlapped>>
    /\ UNCHANGED <<breakerVars, gatewayVars, syncVars, matchVars, runVars, bootVars>>

\* The process is restarted between two runs: SyncScheduler() is constructed
\* anew (FeedConfigManager() reads feed_configs.json, load_scheduled_jobs
\* registers what the directory holds).
Restart ==
    /\ running = [r \in JobIds \X Vias |-> Missing]
    /\ UNCHANGED running
    /\ triggers' = load_scheduled_jobs(files)
    /\ feeds' = feed_file
    /\ UNCHANGED <<files, history, feed_file, finished, life, overlapped, io_failed>>
    /\ UNCHANGED <<breakerVars, gatewayVars, syncVars, matchVars, runVars, bootVars>>

\* Whether the next write or delete of a storage file succeeds: at most one
\* fails in a behaviour.
StorageOutcomes == IF io_failed THEN {TRUE} ELSE BOOLEAN

NextJobs ==
    \/ \E j \in JobIds, t \in ScheduleTypes, m \in JobMappings, ok \in StorageOutcomes :
          add_scheduled_sync(j, t, m, ok)
    \/ \E j \in JobIds, ok \in StorageOutcomes : remove_scheduled_sync(j, ok)
    \/ \E j \in JobIds : Fire(j)
    \/ \E j \in JobIds : run_job_manually(j)
    \/ \E j \in JobIds, v \in Vias, o \in RunOutcomes, ok \in StorageOutcomes :
          RunBody(j, v, o, ok)
    \/ \E j \in JobIds, v \in Vias, ok \in StorageOutcomes : RunEnd(j, v, ok)
    \/ Restart

InitJobs ==
    /\ InitMatchVars(<<>>, <<>>, 85)
    /\ InitRunVars({}, EmptyDict, EmptyDict)
    /\ InitBootVars(<<>>)
    /\ InitGatewayVars
    /\ InitBreakerVars
    /\ InitSyncVars(EmptyDict, [batch_size |-> 5, skip_zero_inventory |-> FALSE])
    /\ \E m \in FeedMappings : InitJobsVars(m)
    /\ cb = CircuitBreaker(2, 3)

SpecJobs == InitJobs /\ [][NextJobs]_vars

\* ------------------------------------- SpecMatch: SKUMatcher.match_skus
\* Rows of the frame handed to match_skus.
MaxRows == 2

SkuTexts ==
    { <<>>, <<" ">>, <<"a", "1">>, <<" ", "a", "1", " ">>, <<"A", "1">>,
      <<"a", "-", "1">>, <<"a", "1", "b">>, <<"b", "2">>, <<"n", "a", "n">> }
SkuCells == { StrCell(t) : t \in SkuTexts } \cup {NaNCell, NoneCell}
QtyCells ==
    { IntCell(5), StrCell(<<"2", ".", "7">>), StrCell(<<"1", ",", "2", "0", "0">>),
      StrCell(<<"n", "/", "a">>), StrCell(<<>>), StrCell(<<"-", "5">>),
      StrCell(<<"i", "n", "f">>), NaNCell, NoneCell }
\* Every SKU cell beside a plain quantity, every quantity cell beside a plain
\* SKU, and a blank SKU beside a quantity that is not a finite number.
FeedRows ==
    { [sku |-> s, qty |-> IntCell(5)] : s \in SkuCells }
    \cup { [sku |-> StrCell(<<"a", "1">>), qty |-> q] : q \in QtyCells }
    \cup { [sku |-> StrCell(<<>>), qty |-> StrCell(<<"i", "n", "f">>)] }
Frames == UNION { [1..n -> FeedRows] : n \in 0..MaxRows }

Variant(id, sku) == [id |-> id, sku |-> sku]
Product(id, variants) == [id |-> id, variants |-> variants]
\* shopify_products as get_all_products returns them.
Catalogs ==
    { <<>>,
      <<Product(1, <<Variant(11, <<"a", "1">>)>>)>>,
      <<Product(1, <<Variant(11, <<"a", "1">>), Variant(12, <<"A", "1">>)>>)>>,
      <<Product(1, <<Variant(11, <<"a", ".", "1">>)>>), Product(2, <<Variant(21, <<"a", "1">>)>>)>>,
      <<Product(1, <<Variant(11, <<" ", "a", "1">>), Variant(12, <<>>)>>),
        Product(2, <<>>), Product(3, <<Variant(31, <<"a", "1">>)>>)>>,
      <<Product(1, <<Variant(11, <<"N", "A", "N">>)>>)>> }
\* fuzzy_threshold: the default of SKUMatcher.__init__ and two values around
\* a score short texts reach.
FuzzyThresholds == {80, 81, 85}

\* One iteration of the loop of match_skus (lines 39-81) on the row at
\* matcher.index.  _parse_quantity runs before the blank test; an exception
\* leaving it leaves match_skus.  row_index is the row's position in df.
MatchRow ==
    /\ matcher.pc = "loop"
    /\ matcher.index <= Len(df)
    /\ LET index == matcher.index
           row == df[index]
           file_sku == strip(str(row.sku))
           quantity == _parse_quantity(row.qty)
           exact == _find_exact_match(file_sku, matcher.shopify_sku_map)
           match_result == IF exact # NoResult THEN exact
                           ELSE _find_fuzzy_match(file_sku, matcher.shopify_sku_map,
                                                  matcher.fuzzy_threshold)
           matched_item ==
               [file_sku |-> file_sku, shopify_sku |-> match_result.sku,
                variant_id |-> match_result.variant_id,
                new_quantity |-> quantity.value,
                match_type |-> IF match_result # NoResult THEN match_result.match_type
                               ELSE "no_match",
                confidence |-> match_result.confidence,
                row_index |-> index]
       IN  matcher' =
             IF quantity.raises # "none" THEN [matcher EXCEPT !.pc = "raised"]
             ELSE IF file_sku = <<>> \/ file_sku = <<"n", "a", "n">>
             THEN [matcher EXCEPT !.index = index + 1]
             ELSE [matcher EXCEPT !.index = index + 1,
                                  !.matched_data = Append(@, matched_item),
                                  !.fuzzy_rows = IF exact = NoResult THEN @ \cup {index} ELSE @]
    /\ UNCHANGED <<df, shopify_products>>
    /\ UNCHANGED <<breakerVars, gatewayVars, syncVars, jobsVars, runVars, bootVars>>

\* return matched_data (line 83)
MatchReturn ==
    /\ matcher.pc = "loop"
    /\ matcher.index > Len(df)
    /\ matcher' = [matcher EXCEPT !.pc = "returned"]
    /\ UNCHANGED <<df, shopify_products>>
    /\ UNCHANGED <<breakerVars, gatewayVars, syncVars, jobsVars, runVars, bootVars>>

NextMatch ==
    \/ MatchRow
    \/ MatchReturn

InitMatch ==
    /\ InitGatewayVars
    /\ InitBreakerVars
    /\ InitSyncVars(EmptyDict, [batch_size |-> 5, skip_zero_inventory |-> FALSE])
    /\ InitJobsVars(EmptyDict)
    /\ InitRunVars({}, EmptyDict, EmptyDict)
    /\ InitBootVars(<<>>)
    /\ cb = CircuitBreaker(2, 3)
    /\ \E frame \in Frames, products \in Catalogs, threshold \in FuzzyThresholds :
          InitMatchVars(frame, products, threshold)

SpecMatch == InitMatch /\ [][NextMatch]_vars

\* ------------------------------------ SpecRun: one job, its runs in turn
\* Pages of limit items the catalog can hold.
MaxPages == 2

\* Lines 152-197: run_count, the effective column mapping, the mapped frame,
\* the validation of the required columns.  The feed configuration exists and
\* the download gives a frame with rows.
RunPrepare ==
    /\ run.pc = "start"
    /\ LET cm == apply_column_mapping(run.feed_mapping, run.job_mapping).used
           cols == mapped_columns(run.columns, cm)
           r1 == [run EXCEPT !.column_mapping = cm, !.df_columns = cols,
                             !.job.run_count = @ + 1]
       IN  run' = IF required_columns(cols)
                  THEN [r1 EXCEPT !.pc = "fetch"]
                  ELSE mark_failed(r1, "Required columns (SKU, Quantity) not found after mapping")
    /\ UNCHANGED <<breakerVars, gatewayVars, syncVars, jobsVars, matchVars, bootVars>>

\* get_all_products: one turn of the loop of _get_paginated_results.  A full
\* page asks for the next one; a short page ends the loop; an exception ends
\* it too (lines 196-198) and the pages read so far are returned.
FetchPage(o) ==
    /\ run.pc = "fetch"
    /\ o = "full" => run.pages < MaxPages
    /\ run' = [run EXCEPT !.catalog_reqs = @ + 1,
                          !.pages = IF o = "full" THEN @ + 1 ELSE @,
                          !.fetch_failed = (o = "error"),
                          !.pc = IF o = "full" THEN "fetch" ELSE "match"]
    /\ UNCHANGED <<breakerVars, gatewayVars, syncVars, jobsVars, matchVars, bootVars>>

\* match_skus(df, column_mapping, shopify_products) and, when it raises, the
\* handlers of lines 229-237 and 254-258.
RunMatch ==
    /\ run.pc = "match"
    /\ LET e == match_columns(run.df_columns, run.column_mapping) IN
       run' = IF e.raises = "none"
              THEN [run EXCEPT !.matched = TRUE, !.pc = "sync"]
              ELSE IF holds_unavailable(lower_text(e.text))
              THEN mark_successful(run, "API temporarily unavailable")
              ELSE mark_failed(run, e.text)
    /\ UNCHANGED <<breakerVars, gatewayVars, syncVars, jobsVars, matchVars, bootVars>>

\* perform_batch_sync (it raises nothing), with or without an item to write,
\* and the marking of lines 248-252.
RunSync(w) ==
    /\ run.pc = "sync"
    /\ run' = mark_successful([run EXCEPT !.wrote = w,
                                          !.catalog_reqs = IF w THEN @ + 1 ELSE @],
                              "None")
    /\ UNCHANGED <<breakerVars, gatewayVars, syncVars, jobsVars, matchVars, bootVars>>

\* The trigger fires again: a new call on the same job_data.
RunAgain ==
    /\ run.pc = "done"
    /\ run.job.run_count <= MaxRuns
    /\ run' = [run EXCEPT !.pc = "start",
                          !.column_mapping = run_start(run.columns).column_mapping,
                          !.df_columns = run.columns,
                          !.pages = 0, !.fetch_failed = FALSE, !.catalog_reqs = 0,
                          !.matched = FALSE, !.wrote = FALSE,
                          !.result = run_start(run.columns).result]
    /\ UNCHANGED <<breakerVars, gatewayVars, syncVars, jobsVars, matchVars, bootVars>>

NextRun ==
    \/ RunPrepare
    \/ \E o \in PageOutcomes : FetchPage(o)
    \/ RunMatch
    \/ \E w \in BOOLEAN : RunSync(w)
    \/ RunAgain

InitRun ==
    /\ InitGatewayVars
    /\ InitBreakerVars
    /\ InitSyncVars(EmptyDict, [batch_size |-> 5, skip_zero_inventory |-> FALSE])
    /\ InitJobsVars(EmptyDict)
    /\ InitMatchVars(<<>>, <<>>, 85)
    /\ InitBootVars(<<>>)
    /\ cb = CircuitBreaker(2, 3)
    /\ \E columns \in FeedColumns, fm \in ColumnMappings, jm \in ColumnMappings :
          InitRunVars(columns, fm, jm)

SpecRun == InitRun /\ [][NextRun]_vars

\* ------------------------------ SpecRecover: load_scheduled_jobs at start
\* job_config files in the directory.
MaxFiles == 3

\* os.listdir('.'): the job_config files in the order the directory gives them.
Listings == UNION { [1..n -> FileContents] : n \in 0..MaxFiles }

\* One turn of the loop of lines 498-523.  An exception leaves the loop for the
\* handler of lines 525-526.
RecoverFile ==
    /\ boot.pc = "loop"
    /\ boot.next <= Len(boot.listing)
    /\ LET does == restore_job(boot.listing[boot.next]) IN
       boot' = IF does = "raise"
               THEN [boot EXCEPT !.pc = "aborted"]
               ELSE [boot EXCEPT !.next = @ + 1,
                                 !.registered = IF does = "add_job"
                                                THEN @ \cup {boot.next} ELSE @]
    /\ UNCHANGED <<breakerVars, gatewayVars, syncVars, jobsVars, matchVars, runVars>>

\* The listing is exhausted: load_scheduled_jobs returns.
RecoverReturn ==
    /\ boot.pc = "loop"
    /\ boot.next > Len(boot.listing)
    /\ boot' = [boot EXCEPT !.pc = "done"]
    /\ UNCHANGED <<breakerVars, gatewayVars, syncVars, jobsVars, matchVars, runVars>>

NextRecover == RecoverFile \/ RecoverReturn

InitRecover ==
    /\ InitGatewayVars
    /\ InitBreakerVars
    /\ InitSyncVars(EmptyDict, [batch_size |-> 5, skip_zero_inventory |-> FALSE])
    /\ InitJobsVars(EmptyDict)
    /\ InitMatchVars(<<>>, <<>>, 85)
    /\ InitRunVars({}, EmptyDict, EmptyDict)
    /\ cb = CircuitBreaker(2, 3)
    /\ \E listing \in Listings : InitBootVars(listing)

SpecRecover == InitRecover /\ [][NextRecover]_vars

\* ------------------------------------------------------ breaker claims

\* C2: starting from CLOSED the breaker is OPEN after exactly failure_threshold
\* consecutive failed calls and not before; a success resets the count to 0, so
\* failure_count is the number of consecutive failures (consec counts them
\* independently of the breaker).
C2_OpenAtThreshold ==
    /\ cb.failure_count = consec
    /\ (cb.state = "CLOSED" <=> consec < cb.failure_threshold)
    /\ (ev.kind = "failure" =>
          (cb.state = "OPEN" <=> consec >= cb.failure_threshold))
    /\ (ev.kind = "success" => cb.failure_count = 0)

C2_Witness ==
    /\ ev.kind = "failure"
    /\ ev.from = "CLOSED"
    /\ consec = cb.failure_threshold
    /\ cb.state = "OPEN"

\* C3: while the breaker is OPEN and less than recovery_timeout has elapsed since
\* the last recorded failure, a call is rejected without func being invoked (no
\* caller moves into func) and the rejection changes nothing of the breaker.
C3_RejectWhileOpen ==
    [][ /\ ( /\ cb.state = "OPEN"
             /\ cb.last_failure_time # None
             /\ now - cb.last_failure_time < cb.recovery_timeout
             /\ ev'.kind \in {"admit", "reject"} )
           => (ev'.kind = "reject" /\ cb' = cb /\ pc' = pc)
        /\ (ev'.kind = "reject" => cb' = cb /\ pc' = pc)
      ]_vars

C3_Witness ==
    /\ ev.kind = "reject"
    /\ cb.state = "OPEN"
    /\ now > cb.last_failure_time
    /\ now - cb.last_failure_time < cb.recovery_timeout

\* C4: a call that completes while the breaker is HALF_OPEN decides the next
\* state: success gives CLOSED with failure_count 0, failure gives OPEN at once
\* with the recovery timer restarted at the time of that failure.
C4_ProbeDecides ==
    /\ (ev.kind = "success" /\ ev.from = "HALF_OPEN")
          => (cb.state = "CLOSED" /\ cb.failure_count = 0)
    /\ (ev.kind = "failure" /\ ev.from = "HALF_OPEN")
          => (cb.state = "OPEN" /\ cb.last_failure_time = now)

C4_Witness ==
    /\ ev.kind = "failure"
    /\ ev.from = "HALF_OPEN"
    /\ cb.state = "OPEN"
    /\ cb.last_failure_time = now
    /\ now >= cb.recovery_timeout

\* C5: once recovery_timeout has elapsed exactly one call is let through: no
\* caller is passed to func by a call() that found the breaker HALF_OPEN (the
\* probe itself found it OPEN).
C5_SingleProbe ==
    \A c \in Callers : pc[c] = "in_func" => entered_in[c] # "HALF_OPEN"

\* ------------------------------------------------------ gateway claims

\* C1: every request the catalog client issues has passed the limiter's wait
\* and the breaker's admission test, and none reaches the network while the
\* breaker is OPEN with recovery_timeout not yet elapsed.
C1_ClientThroughGateway ==
    net.via # "none" => (net.waited /\ net.gated /\ ~net.blocked)

\* --------------------------------------------------- scheduled-sync claims
InventoryKinds == {"GET_variant", "GET_locations", "POST_inventory_set"}

batch_of(i) == (i - 1) \div job.sync_options.batch_size

\* C6: in a scheduled run the write set handed to perform_batch_sync holds only
\* results with match_type exact, and every request of the run is for a row
\* whose reconciliation result is exact: no fuzzy or no_match row causes a
\* request.
C6_ExactOnlyWrites ==
    /\ \A k \in 1..Len(sync_data) : sync_data[k].match_type = "exact"
    /\ \A r \in reqs :
          \E k \in 1..Len(matched_data) :
             matched_data[k].row_index = r[1] /\ matched_data[k].match_type = "exact"

C6_Witness ==
    /\ phase = "idle"
    /\ result.success
    /\ Len(matched_data) = 2
    /\ matched_data[1].match_type = "fuzzy"
    /\ matched_data[2].match_type = "exact"
    /\ <<2, "POST_inventory_set">> \in reqs

C8_SuccessOnlyIfCallsSucceeded ==
    /\ \A k \in 1..Len(results) : results[k].success => ~own[k].call_failed
    /\ (phase = "idle" /\ result.success) =>
          result.records_synced = Cardinality({ k \in 1..Len(own) : ~own[k].call_failed })

\* C9: with a policy in which only inventory_quantity is enabled no
\* product-attribute and no variant-attribute update request is issued for any
\* item; every request of the run is an inventory-level one.
C9_InventoryOnlyPolicy ==
    ( /\ Get(job.sync_fields, "inventory_quantity")
      /\ \A k \in DOMAIN job.sync_fields \ {"inventory_quantity"} : ~job.sync_fields[k] )
    => \A r \in reqs : r[2] \in InventoryKinds

C9_Witness ==
    /\ job.sync_fields = [k \in {"inventory_quantity", "product_title", "variant_price"}
                             |-> k = "inventory_quantity"]
    /\ phase = "idle"
    /\ result.success
    /\ \E r \in reqs : r[2] = "POST_inventory_set"

\* C10: a run whose policy has no toggle enabled (empty, or every toggle false)
\* does not proceed: it issues no request, and once it is over it is recorded
\* as failed with an error in last_error and in the execution record.
C10_NoToggleNoRun ==
    ~any_enabled(job.sync_fields) =>
        /\ reqs = {}
        /\ ~result.success
        /\ (phase = "idle" /\ job.run_count > 0) =>
              (job.last_error # "None" /\ result.error # "None")

\* C12: whenever a run suffers a feed-download, a mapping-validation or a
\* catalog-write failure, the job's last_error is set and the execution record
\* carries a non-null error.
C12_FailureRecorded ==
    (phase = "idle" /\ job.run_count > 0) =>
        /\ result.error \in {"download_failed", "missing_columns"} => job.last_error = result.error
        /\ (\E k \in 1..Len(own) : own[k].call_failed) =>
              (job.last_error # "None" /\ result.error # "None")

\* ------------------------------------------------------ lifecycle claims
\* C11: execute_sync_job never raises for a feed-download, a mapping-validation
\* or a catalog failure (every call that has run its body goes on to return its
\* result), and the step in which a run ends, failed or not, leaves the job's
\* trigger registered, so the trigger can fire again.
C11_FailureNeverStops ==
    /\ [](\A r \in JobIds \X Vias :
            (running[r] # Missing /\ running[r].stage = "log") => running[r].returns)
    /\ [][\A j \in JobIds :
            (finished'[j] > finished[j] /\ triggers[j] # Missing) => triggers'[j] # Missing]_vars

\* C11 witness: a job whose run failed is executing again on a later fire.
C11_Witness ==
    \E j \in JobIds :
        /\ triggers[j] # Missing
        /\ triggers[j].error_count = 1
        /\ running[<<j, "trigger">>] # Missing
        /\ running[<<j, "trigger">>].data.run_count = 2

\* C13: an execution adds 1 to run_count on entry and 1 to exactly one of
\* success_count and error_count before it saves, so every persisted definition
\* has run_count = success_count + error_count, and so has the dict of a call
\* once its body is over (while the body runs, run_count is one ahead).
C13_CountersAddUp ==
    /\ \A j \in JobIds :
          files[j] # Missing =>
              files[j].run_count = files[j].success_count + files[j].error_count
    /\ \A r \in JobIds \X Vias :
          running[r] # Missing =>
              running[r].data.run_count =
                  running[r].data.success_count + running[r].data.error_count
                  + (IF running[r].stage = "run" THEN 1 ELSE 0)

\* C13 witness: a persisted definition after one successful and one failed
\* execution.
C13_Witness ==
    \E j \in JobIds :
        /\ files[j] # Missing
        /\ files[j].run_count = 2
        /\ files[j].success_count = 1
        /\ files[j].error_count = 1

\* C14: as long as no two executions of a job overlapped and no storage write
\* failed, whenever no execution of the job is in flight the persisted
\* run_count equals the number of executions of the job since it was added.
C14_RunCountIsExecutions ==
    \A j \in JobIds :
        ( /\ ~io_failed
          /\ ~overlapped[j]
          /\ \A v \in Vias : running[<<j, v>>] = Missing
          /\ files[j] # Missing )
        => files[j].run_count = finished[j]

\* C15: as long as no storage write failed, once no execution of a job is
\* writing its record the job's history holds one record for each execution
\* completed (at most history_cap of them), the records in the order of the
\* executions.
C15_OneRecordPerExecution ==
    \A j \in JobIds :
        ( /\ ~io_failed
          /\ \A v \in Vias : running[<<j, v>>] = Missing )
        => /\ Len(history[j]) = Min(finished[j], history_cap)
           /\ \A k \in 1..(Len(history[j]) - 1) : history[j][k].n < history[j][k + 1].n

\* C16: a freshly constructed scheduler holds a registration for exactly the
\* job ids that have a persisted definition.
C16_RestartRecovery ==
    [][Restart => \A j \in JobIds : (triggers'[j] # Missing) <=> (files[j] # Missing)]_vars

\* C17: once remove_scheduled_sync has returned True for a job id (and no
\* storage operation failed), the id has no registration and no persisted
\* definition, whatever happens afterwards.
C17_RemovalTerminal ==
    \A j \in JobIds :
        (life[j] = "removed" /\ ~io_failed) =>
            (triggers[j] = Missing /\ files[j] = Missing)

\* C18: no job id has two executions in progress at once, one started by its
\* trigger and one by run-now.
C18_NoParallelRuns ==
    \A j \in JobIds :
        ~(running[<<j, "trigger">>] # Missing /\ running[<<j, "manual">>] # Missing)

\* C19: a run changes only its own job's definition and history: the column
\* mapping the feed configuration holds stays what feed_configs.json gives it,
\* and a step that completes a run of one job leaves the files, histories and
\* registrations of the other jobs unchanged.
C19_RunTouchesOwnJobOnly ==
    /\ [](feeds = feed_file)
    /\ [][\A j \in JobIds :
            finished'[j] > finished[j] =>
                \A o \in JobIds \ {j} :
                    /\ files'[o] = files[o]
                    /\ history'[o] = history[o]
                    /\ triggers'[o] = triggers[o]]_vars

\* C20: when add_scheduled_sync returns True the job's definition is persisted,
\* and when execute_sync_job returns, the persisted definition is the run's
\* dict and the last record of the persisted history is the run's record.
C20_PersistBeforeReturn ==
    [][ /\ \A j \in JobIds :
              (life[j] = "new" /\ life'[j] = "added") => files'[j] # Missing
        /\ \A r \in JobIds \X Vias :
              (running[r] # Missing /\ running'[r] = Missing) =>
                  /\ files'[r[1]] = running[r].data
                  /\ Len(history'[r[1]]) > 0
                  /\ history'[r[1]][Len(history'[r[1]])] = running[r].rec ]_vars

\* ------------------------------------------------------ limiter claims
\* C25: the streak is below 5 and restarts at 0 when the limiter is told of a
\* 429 or a 529; successes 1 to 4 of a streak add 1 to the streak and leave
\* current_delay as it is; the 5th sets the streak to 0 and current_delay to
\* 0.9 x current_delay, or to initial_delay where that would be lower, so the
\* delay after a decay step is never below initial_delay.
C25_DecayAfterFive ==
    /\ [](rl.success_count \in 0..4)
    /\ [][(\E ra \in RetryAfters : LOnRateLimit(ra)) \/ LOnOverload => rl'.success_count = 0]_vars
    /\ [][LOnSuccess =>
         /\ rl.success_count < 4 =>
               (rl'.success_count = rl.success_count + 1 /\ rl'.current_delay = rl.current_delay)
         /\ rl.success_count = 4 =>
               /\ rl'.success_count = 0
               /\ rl'.current_delay >= rl.initial_delay
               /\ rl.current_delay * 9 >= rl.initial_delay * 10 =>
                     rl'.current_delay * 10 = rl.current_delay * 9
               /\ rl.current_delay * 9 < rl.initial_delay * 10 =>
                     rl'.current_delay = rl.initial_delay]_vars

\* C25 witness: a limiter raised to 1.0 s whose delay a decay step has brought
\* to 0.9 s, the streak back at 0.
C25_Witness ==
    /\ rl.current_delay = 9 * 1000 * 1000
    /\ rl.success_count = 0

\* C29: a 429 or a 529 never lowers current_delay and never leaves it above
\* max_delay; a 429 without a hint doubles it and a 529 triples it, up to
\* max_delay.
C29_FailureRaisesDelay ==
    [][ /\ (\E ra \in RetryAfters : LOnRateLimit(ra)) \/ LOnOverload =>
              (rl'.current_delay >= rl.current_delay /\ rl'.current_delay <= rl.max_delay)
        /\ LOnRateLimit(None) =>
              rl'.current_delay = Min(rl.max_delay, 2 * rl.current_delay)
        /\ LOnOverload =>
              rl'.current_delay = Min(rl.max_delay, 3 * rl.current_delay) ]_vars

\* C26: a request of the gateway that fails, whatever the failure (429, 529,
\* another 5xx, a 4xx, a connection error), leaves the limiter's success
\* streak at 0.
C26_FailureResetsStreak ==
    [][\A resp \in Responses \ {"ok"}, ra \in RetryAfters :
          (call_gate(cb, now).admit /\ GCall(resp, ra)) => rl'.success_count = 0]_vars

\* C27: a request answered with a 4xx other than 429 is not attempted again:
\* the call ends with the error in the step that received the response, in
\* the catalog client and in the gateway alike.
C27_NonRetryableOnce ==
    [][\A ra \in RetryAfters :
          /\ STry("r4xx", ra) => (sc'.pc = "idle" /\ sc'.result = "error")
          /\ (call_gate(cb, now).admit /\ GCall("r4xx", ra)) =>
                (g'.pc = "idle" /\ g'.result = "error")]_vars

\* C30: a gateway request whose attempts fail with retryable errors is not
\* ended by the circuit breaker: a rejection by the breaker ends a request
\* only on its first attempt, never after failures of the request itself.
C30_RetryToBound ==
    g.result = "circuit_open" => g.attempt = 1

\* ------------------------------------------------------- matcher claims

\* A SKU cell is blank or missing: NaN, None, or a text that is empty once
\* trimmed.
blank_sku(cell) == cell.kind \in {"nan", "none"} \/ (cell.kind = "str" /\ strip(cell.text) = <<>>)

\* The SKUs of the catalog: the trimmed, non-empty sku of every variant.
catalog_skus ==
    UNION { { strip(shopify_products[p].variants[v].sku) :
                v \in 1..Len(shopify_products[p].variants) } :
            p \in 1..Len(shopify_products) } \ {<<>>}

\* C21: match_skus returns exactly one result for every row whose trimmed SKU
\* is non-blank and none for a row whose SKU is blank or missing (empty,
\* whitespace-only, NaN or None), in the order of the rows: the rows of the
\* returned results are the non-blank rows of the frame, in order.
C21_OneResultPerRow ==
    matcher.pc = "returned" =>
        [k \in 1..Len(matcher.matched_data) |-> matcher.matched_data[k].row_index]
          = SelectSeq([i \in 1..Len(df) |-> i], LAMBDA i : ~blank_sku(df[i].sku))

\* C22: a processed row whose trimmed SKU equals a catalog SKU verbatim or
\* case-insensitively has a result of match_type exact with confidence 1.0
\* on that catalog SKU, the verbatim one when there is one, and
\* _find_fuzzy_match was not called for the row.
C22_ExactPrecedence ==
    \A i \in 1..Len(df) :
        LET file_sku == strip(df[i].sku.text)
            verbatim == { c \in catalog_skus : c = file_sku }
            caseless == { c \in catalog_skus : lower(c) = lower(file_sku) }
        IN  (i < matcher.index /\ df[i].sku.kind = "str" /\ caseless # {}) =>
               /\ i \notin matcher.fuzzy_rows
               /\ \E k \in 1..Len(matcher.matched_data) :
                     LET item == matcher.matched_data[k] IN
                     /\ item.row_index = i
                     /\ item.match_type = "exact"
                     /\ item.confidence = 100
                     /\ item.shopify_sku \in (IF verbatim # {} THEN verbatim ELSE caseless)

\* The best similarity score of a SKU over the catalog.
best_score(file_sku) ==
    LET scores == { ratio(full_process(file_sku), full_process(c)) : c \in catalog_skus }
    IN  CHOOSE x \in scores : \A y \in scores : y <= x

\* C23: a result without an exact match is fuzzy if and only if the best
\* similarity score over the catalog is at least fuzzy_threshold; a fuzzy
\* result carries that score as its confidence, which is at least the
\* threshold and below the 1.0 of an exact match; otherwise (a lower best
\* score, an empty catalog) the result is no_match with confidence None.
C23_FuzzyThreshold ==
    \A k \in 1..Len(matcher.matched_data) :
        LET item == matcher.matched_data[k] IN
        item.match_type # "exact" =>
            /\ item.match_type = "fuzzy" <=>
                  (catalog_skus # {} /\ best_score(item.file_sku) >= matcher.fuzzy_threshold)
            /\ item.match_type = "fuzzy" =>
                  /\ item.confidence = best_score(item.file_sku)
                  /\ item.confidence >= matcher.fuzzy_threshold
                  /\ item.confidence < 100
            /\ item.match_type = "no_match" => item.confidence = None

\* C24: quantity normalization never raises: no quantity value makes
\* match_skus end with an exception.
C24_QuantityTotal ==
    matcher.pc # "raised"

\* C28: new_quantity of every result is a non-negative integer.
C28_QuantityNonNegative ==
    \A k \in 1..Len(matcher.matched_data) : matcher.matched_data[k].new_quantity >= 0

\* ---------------------------------------------- breaker claims, continued

\* C31: apart from reset(), the breaker state changes only along
\* CLOSED->OPEN, OPEN->HALF_OPEN, HALF_OPEN->CLOSED and HALF_OPEN->OPEN, for
\* every interleaving of concurrent calls; it never goes from OPEN to CLOSED
\* directly, and it leaves OPEN only once recovery_timeout has elapsed.
BreakerEdges ==
    { <<"CLOSED", "OPEN">>, <<"OPEN", "HALF_OPEN">>,
      <<"HALF_OPEN", "CLOSED">>, <<"HALF_OPEN", "OPEN">> }
C31_TransitionsOnly ==
    [][ \/ reset
        \/ cb'.state = cb.state
        \/ /\ <<cb.state, cb'.state>> \in BreakerEdges
           /\ cb.state = "OPEN" => _should_attempt_reset(cb, now) ]_vars

\* C32: when time keeps advancing, callers keep calling and func succeeds from
\* some point on, an OPEN breaker eventually is CLOSED with failure_count 0.
C32_OpenIsLeft ==
    (cb.state = "OPEN") ~> (cb.state = "CLOSED" /\ cb.failure_count = 0)

\* C32 witness: after func stopped failing, the probe of an OPEN breaker
\* whose cooldown elapsed came back and the breaker is CLOSED with count 0.
C32_Witness ==
    /\ now > FailUntil
    /\ ev.kind = "success" /\ ev.from = "HALF_OPEN"
    /\ cb.state = "CLOSED" /\ cb.failure_count = 0

\* ---------------------------------------- scheduled-sync claims, continued

\* The positions of the outcome list that belong to the item of a row.
outcomes_of(row) == { k \in 1..Len(results) : results[k].variant_id = row }

\* C33: perform_batch_sync returns at most one outcome per item, in the order
\* of the write set, and exactly one for every item an update was attempted
\* for (every item that caused a request has its outcome; in a run that met
\* no overload every item that is not skipped has one).  With
\* skip_zero_inventory set an item whose new quantity is 0 causes no request
\* and has no outcome.
C33_OneOutcomePerAttempt ==
    /\ \A k \in 1..Len(results) : \A j \in 1..Len(results) :
          k < j => results[k].variant_id < results[j].variant_id
    /\ \A r \in reqs : Cardinality(outcomes_of(r[1])) = 1
    /\ \A i \in 1..Len(sync_data) :
          LET item == sync_data[i] IN
          /\ (job.sync_options.skip_zero_inventory /\ item.new_quantity = 0) =>
                /\ outcomes_of(item.variant_id) = {}
                /\ \A r \in reqs : r[1] # item.row_index
          /\ ( /\ i < idx
               /\ ~(job.sync_options.skip_zero_inventory /\ item.new_quantity = 0)
               /\ \A k \in 1..Len(results) : results[k].error # "overload" ) =>
                Cardinality(outcomes_of(item.variant_id)) = 1

\* C33 witness: a finished run with skip_zero_inventory set over a zero and a
\* non-zero item: one outcome, for the second item, and no request for the first.
C33_Witness ==
    /\ phase = "idle"
    /\ result.success
    /\ job.sync_options.skip_zero_inventory
    /\ Len(sync_data) = 2
    /\ sync_data[1].new_quantity = 0 /\ sync_data[2].new_quantity = 1
    /\ Len(results) = 1
    /\ results[1].variant_id = sync_data[2].variant_id
    /\ \E r \in reqs : r[1] = sync_data[2].row_index

C35_PayloadFromFeed ==
    \A k \in 1..Len(own) : \A w \in own[k].payload :
        /\ w[3].kind # "none"
        /\ w[3] # StrCell(<<"N", "o", "n", "e">>)

\* ------------------------------------------------- scheduled-run claims
\* The effective mapping maps SKU and Quantity to columns the feed has.
mapping_covers_feed ==
    LET cm == apply_column_mapping(run.feed_mapping, run.job_mapping).used IN
    /\ {"SKU", "Quantity"} \subseteq DOMAIN cm
    /\ cm["SKU"] \in run.columns
    /\ cm["Quantity"] \in run.columns

\* C36: a run whose effective column mapping maps SKU and Quantity to columns
\* of the feed, whatever their names, passes the validation and reaches the
\* reconciliation: when the call is over match_skus has returned and the run
\* is not recorded as failed.
C36_MappedColumnsReachMatch ==
    (run.pc = "done" /\ mapping_covers_feed) => (run.matched /\ run.result.success)

\* C37: when SKU or Quantity is absent from the frame after the mapping, the
\* run ends at the validation: no catalog request has been issued, the
\* execution record has success = false and an error, last_error is set and
\* error_count has grown by 1; nothing is reconciled or written afterwards.
C37_MissingColumnsAbort ==
    /\ []( (run.pc # "start" /\ ("SKU" \notin run.df_columns \/ "Quantity" \notin run.df_columns))
             => (run.pc = "done" /\ run.catalog_reqs = 0 /\ ~run.matched /\ ~run.wrote
                 /\ ~run.result.success /\ run.result.error # "None"
                 /\ run.job.last_error # "None") )
    /\ [][ (run.pc = "start" /\ run'.pc # "start"
            /\ ("SKU" \notin run'.df_columns \/ "Quantity" \notin run'.df_columns))
             => run'.job.error_count = run.job.error_count + 1 ]_vars

\* C37 witness: a call that ended at the validation for a frame that has SKU
\* but no Quantity after the mapping.
C37_Witness ==
    /\ run.pc = "done"
    /\ run.df_columns = {"SKU"}
    /\ run.catalog_reqs = 0
    /\ run.job.error_count = 1 /\ run.job.run_count = 1
    /\ run.result = [success |-> FALSE,
                     error |-> "Required columns (SKU, Quantity) not found after mapping"]

\* C38: in the execution record success is true exactly when error is null,
\* and after the run last_error is null exactly when the run is recorded as
\* successful.
C38_SuccessIffNoError ==
    run.pc = "done" =>
        /\ run.result.success <=> (run.result.error = "None")
        /\ (run.job.last_error = "None") <=> run.result.success

\* C40: when a page request of the catalog fetch has failed, nothing is
\* reconciled or written in the run and the run is recorded as failed with an
\* error.
C40_FetchFailureFailsRun ==
    run.fetch_failed =>
        /\ ~run.matched /\ ~run.wrote
        /\ run.pc = "done" => (~run.result.success /\ run.result.error # "None")

\* ---------------------------------------------------- restart claims
\* A definition that can be loaded and whose schedule gives a trigger.
restorable(loaded) ==
    /\ loaded # Missing
    /\ loaded.schedule_type \in {"cron", "interval"}
    /\ loaded.schedule_ok

\* C39: when load_scheduled_jobs is over, every persisted definition that can
\* be loaded and whose schedule gives a trigger is registered, whatever other
\* files the directory holds.
C39_BadDefinitionSkipped ==
    boot.pc \in {"done", "aborted"} =>
        \A k \in 1..Len(boot.listing) : restorable(boot.listing[k]) => k \in boot.registered


====
